---- MODULE Spec2Model ----
(***************************************************************************)
(* ChronoMerkleTree: a Merkle tree whose leaves carry a timestamp, with a  *)
(* sparse timestamp index, a delta log and rollback.                       *)
(*                                                                         *)
(* Representation.                                                         *)
(*  - A byte string is a sequence of runs <<byte, count>> (b"a" is         *)
(*    << <<97, 1>> >>, vec![0u8; n] is << <<0, n>> >>), so that data.len() *)
(*    of a 1 MiB input is computed, not stored byte by byte.               *)
(*  - The hash function is an ideal (collision free) one: the digest of a  *)
(*    byte string is the bracketed token sequence <<-1>> \o tokens \o      *)
(*    <<-2>>; the bytes of a digest (as_ref) are the digest itself, so     *)
(*    hash_pair(l, r) = hash(l ++ r) keeps the concatenation order.        *)
(*  - Option<T>: None is <<>>, Some(x) is <<x>>.                           *)
(*  - Result<T>: [kind |-> "Ok", val |-> v] or [kind |-> "Err", err |-> e].*)
(*  - Vec indices are 0-based in the code; At(s, i) reads s[i] of the code.*)
(*  - Timestamps are integers below 2^31.  The clock and the two bounds    *)
(*    validation derives from it reach 100 years in seconds, beyond the    *)
(*    integers TLC computes with, so they are kept as pairs                *)
(*    <<years, seconds>> standing for years * ONE_YEAR + seconds.          *)
(***************************************************************************)
EXTENDS Integers, Sequences, FiniteSets, TLC

\* ------------------------------------------------------------------ bounds
\* leaves of a tree that is also rolled back and pruned
MaxLeaves == 3
\* leaves of a tree that only receives inserts
MaxInsertOnly == 4
\* timestamps are 1..MaxTag
MaxTag == 3
\* calls of apply_delta_rollback that change the tree, per behaviour; the
\* last of them is followed by at most one more call
MaxApplied == 1

\* ------------------------------------------------------- program constants
MAX_DATA_SIZE == 1048576
ONE_YEAR == 31536000

\* ------------------------------------------------------------------ helpers
None == <<>>
Some(x) == <<x>>
unwrap_or(o, d) == IF o = None THEN d ELSE o[1]
Ok(v) == [kind |-> "Ok", val |-> v]
Err(e) == [kind |-> "Err", err |-> e]
At(s, i) == s[i + 1]
Min(a, b) == IF a <= b THEN a ELSE b
Max(a, b) == IF a >= b THEN a ELSE b
truncate(s, n) == SubSeq(s, 1, Min(n, Len(s)))

\* years * ONE_YEAR + seconds, for u64 values beyond 2^31
wide(t) == <<t \div ONE_YEAR, t % ONE_YEAR>>
wide_add(a, b) ==
    <<a[1] + b[1] + ((a[2] + b[2]) \div ONE_YEAR), (a[2] + b[2]) % ONE_YEAR>>
wide_lt(a, b) == a[1] < b[1] \/ (a[1] = b[1] /\ a[2] < b[2])
wide_saturating_sub(a, b) ==
    IF ~wide_lt(b, a) THEN <<0, 0>>
    ELSE IF a[2] >= b[2] THEN <<a[1] - b[1], a[2] - b[2]>>
    ELSE <<a[1] - b[1] - 1, a[2] + ONE_YEAR - b[2]>>

RECURSIVE data_len(_)
data_len(d) == IF d = <<>> THEN 0 ELSE d[1][2] + data_len(Tail(d))

RECURSIVE tokens(_)
tokens(d) == IF d = <<>> THEN <<>> ELSE d[1] \o tokens(Tail(d))

\* --------------------------------------------------------------- hash.rs
digest(toks) == <<-1>> \o toks \o <<-2>>
hash(data) == digest(tokens(data))
hash_pair(left, right) == digest(left \o right)

\* --------------------------------------------------------------- node.rs
leaf(h, timestamp, data) ==
    [type |-> "Leaf", hash |-> h, timestamp |-> timestamp, data |-> data]
delta(delta_hash, base_hash, timestamp) ==
    [type |-> "Delta", delta_hash |-> delta_hash, base_hash |-> base_hash,
     timestamp |-> timestamp]
internal(h, left_hash, right_hash, timestamp_range) ==
    [type |-> "Internal", hash |-> h, left_hash |-> left_hash,
     right_hash |-> right_hash, timestamp_range |-> timestamp_range]
node_hash(n) == IF n.type = "Delta" THEN n.delta_hash ELSE n.hash
timestamp_info(n) ==
    IF n.type = "Internal"
    THEN <<n.timestamp_range[1], Some(n.timestamp_range[2])>>
    ELSE <<n.timestamp, None>>
is_leaf(n) == n.type = "Leaf"

\* ------------------------------------------------------- sparse_index.rs
EmptyMap == [t \in {} |-> 0]
SparseIndex_new(sparsity) ==
    [index |-> EmptyMap, sparsity |-> IF sparsity = 0 THEN 1 ELSE sparsity]
\* Mutant of SparseIndex_insert: an entry already present is kept.
SparseIndex_insert_first_wins(si, timestamp, leaf_index) ==
    IF timestamp % si.sparsity = 0 /\ timestamp \notin DOMAIN si.index
    THEN [si EXCEPT !.index =
            [t \in (DOMAIN si.index) \cup {timestamp} |->
                IF t = timestamp THEN leaf_index ELSE si.index[t]]]
    ELSE si

SparseIndex_insert(si, timestamp, leaf_index) ==
    IF timestamp % si.sparsity = 0
    THEN [si EXCEPT !.index =
            [t \in (DOMAIN si.index) \cup {timestamp} |->
                IF t = timestamp THEN leaf_index ELSE si.index[t]]]
    ELSE si
find_exact(si, timestamp) ==
    IF timestamp \in DOMAIN si.index THEN Some(si.index[timestamp]) ELSE None

\* The values of the entries with a key in keys, in ascending key order.
RECURSIVE values_in_key_order(_, _)
values_in_key_order(map, keys) ==
    IF keys = {} THEN <<>>
    ELSE LET first == CHOOSE t \in keys : \A u \in keys : t <= u
         IN <<map[first]>> \o values_in_key_order(map, keys \ {first})

\* BTreeMap::range on a map with entries panics when the start of the range
\* is greater than its end, and the call then does not return; on a map
\* without entries it returns the empty range without comparing the bounds.
SparseIndex_find_range(si, start, end) ==
    IF start > end /\ DOMAIN si.index # {}
    THEN [kind |-> "Panic", message |-> "range start is greater than range end"]
    ELSE Ok(values_in_key_order(si.index,
                                {t \in DOMAIN si.index : start <= t /\ t <= end}))

\* BTreeMap::range(..=timestamp).next_back() and range(timestamp..).next():
\* the entry with the largest key <= timestamp, the one with the smallest
\* key >= timestamp, as <<key, value>>.
range_next_back(si, timestamp) ==
    LET keys == {t \in DOMAIN si.index : t <= timestamp} IN
    IF keys = {} THEN None
    ELSE LET t1 == CHOOSE t \in keys : \A u \in keys : u <= t
         IN Some(<<t1, si.index[t1]>>)
range_next(si, timestamp) ==
    LET keys == {t \in DOMAIN si.index : t >= timestamp} IN
    IF keys = {} THEN None
    ELSE LET t2 == CHOOSE t \in keys : \A u \in keys : t <= u
         IN Some(<<t2, si.index[t2]>>)

\* Mutant of find_nearest: on a tie the successor is returned.
find_nearest_prefers_after(si, timestamp) ==
    LET before == range_next_back(si, timestamp)
        after == range_next(si, timestamp)
    IN IF before # None /\ after # None
       THEN IF timestamp - before[1][1] < after[1][1] - timestamp
            THEN Some(before[1][2])
            ELSE Some(after[1][2])
       ELSE IF before # None THEN Some(before[1][2])
       ELSE IF after # None THEN Some(after[1][2])
       ELSE None

find_nearest(si, timestamp) ==
    LET before == range_next_back(si, timestamp)
        after == range_next(si, timestamp)
    IN IF before # None /\ after # None
       THEN LET t1 == before[1][1]
                idx1 == before[1][2]
                t2 == after[1][1]
                idx2 == after[1][2]
            IN IF timestamp - t1 <= t2 - timestamp
               THEN Some(idx1)
               ELSE Some(idx2)
       ELSE IF before # None THEN Some(before[1][2])
       ELSE IF after # None THEN Some(after[1][2])
       ELSE None

\* --------------------------------------------------------------- config.rs
\* Mutant of TreeConfig_validate: a max_depth of 64 is refused as well.
TreeConfig_validate_below_64(config) ==
    IF config.sparse_index_sparsity = 0
    THEN Err([type |-> "InvalidConfiguration", parameter |-> "sparse_index_sparsity"])
    ELSE IF config.max_depth = 0 \/ config.max_depth >= 64
    THEN Err([type |-> "InvalidConfiguration", parameter |-> "max_depth"])
    ELSE Ok(<<>>)

TreeConfig_validate(config) ==
    IF config.sparse_index_sparsity = 0
    THEN Err([type |-> "InvalidConfiguration", parameter |-> "sparse_index_sparsity"])
    ELSE IF config.max_depth = 0 \/ config.max_depth > 64
    THEN Err([type |-> "InvalidConfiguration", parameter |-> "max_depth"])
    ELSE Ok(<<>>)

TreeConfig_default ==
    [sparse_index_sparsity |-> 1, enable_deltas |-> TRUE,
     incremental_updates |-> TRUE, max_depth |-> 32,
     parallel_construction |-> FALSE]

\* --------------------------------------------------------- constructors.rs
\* security.rs, events::tree_initialization: the description of the event is
\* formatted from the configuration summary.
tree_initialization(config_summary) ==
    [event_type |-> "TreeInitialization", config_summary |-> config_summary]

\* The summary with_config and with_config_and_logger format for the
\* initialization event.
config_summary_of(config) ==
    [sparsity |-> config.sparse_index_sparsity,
     deltas |-> config.enable_deltas,
     incremental |-> config.incremental_updates,
     max_depth |-> config.max_depth]

\* The events with_config hands to the logger: none when validation fails.
with_config_events(config) ==
    IF TreeConfig_validate(config).kind = "Err" THEN <<>>
    ELSE <<tree_initialization(config_summary_of(config))>>

with_config(config) ==
    LET v == TreeConfig_validate(config) IN
    IF v.kind = "Err" THEN v
    ELSE Ok([nodes |-> <<>>,
             leaf_count |-> 0,
             sparse_index |-> SparseIndex_new(config.sparse_index_sparsity),
             config |-> config,
             incremental_updates |-> config.incremental_updates,
             delta_chains |-> SparseIndex_new(config.sparse_index_sparsity),
             stored_deltas |-> <<>>])

\* The logger passed in is stored in the tree; the model's tree record has
\* no logger field.
with_config_and_logger(config) ==
    LET v == TreeConfig_validate(config) IN
    IF v.kind = "Err" THEN v
    ELSE LET sparse_index_new == SparseIndex_new(config.sparse_index_sparsity)
             delta_chains_new == SparseIndex_new(config.sparse_index_sparsity)
         IN Ok([nodes |-> <<>>,
                leaf_count |-> 0,
                sparse_index |-> sparse_index_new,
                config |-> config,
                incremental_updates |-> config.incremental_updates,
                delta_chains |-> delta_chains_new,
                stored_deltas |-> <<>>])

\* ------------------------------------------------------------- operations.rs
root(self) ==
    IF self.nodes = <<>> THEN None
    ELSE Some(node_hash(self.nodes[Len(self.nodes)]))

\* --------------------------------------------------------------- rebuild.rs
\* Mutant of parent_node: the children are hashed right before left.
parent_node_swapped(ns, current_start, current_count, i) ==
    LET left_node == At(ns, current_start + 2 * i)
        right_node == IF current_start + 2 * i + 1 < current_start + current_count
                      THEN At(ns, current_start + 2 * i + 1)
                      ELSE At(ns, current_start + current_count - 1)
        lt == timestamp_info(left_node)
        rt == timestamp_info(right_node)
    IN internal(hash_pair(node_hash(right_node), node_hash(left_node)),
                node_hash(left_node), node_hash(right_node),
                <<Min(lt[1], rt[1]),
                  Max(unwrap_or(lt[2], lt[1]), unwrap_or(rt[2], rt[1]))>>)

\* One parent of the layer that starts at current_start and has
\* current_count elements (the closure of rebuild_tree's map).
\* Mutant of parent_node: the range starts at the left child's lower bound.
parent_node_left_start(ns, current_start, current_count, i) ==
    LET left_idx == current_start + 2 * i
        right_idx == current_start + 2 * i + 1
        left_node == At(ns, left_idx)
        right_node == IF right_idx < current_start + current_count
                      THEN At(ns, right_idx)
                      ELSE At(ns, current_start + current_count - 1)
        lt == timestamp_info(left_node)
        rt == timestamp_info(right_node)
    IN internal(hash_pair(node_hash(left_node), node_hash(right_node)),
                node_hash(left_node), node_hash(right_node),
                <<lt[1], Max(unwrap_or(lt[2], lt[1]), unwrap_or(rt[2], rt[1]))>>)

parent_node(ns, current_start, current_count, i) ==
    LET left_idx == current_start + 2 * i
        right_idx == current_start + 2 * i + 1
        left_node == At(ns, left_idx)
        right_node == IF right_idx < current_start + current_count
                      THEN At(ns, right_idx)
                      ELSE At(ns, current_start + current_count - 1)
        left_hash == node_hash(left_node)
        right_hash == node_hash(right_node)
        lt == timestamp_info(left_node)
        rt == timestamp_info(right_node)
        timestamp_range ==
            <<Min(lt[1], rt[1]),
              Max(unwrap_or(lt[2], lt[1]), unwrap_or(rt[2], rt[1]))>>
    IN internal(hash_pair(left_hash, right_hash), left_hash, right_hash,
                timestamp_range)

RECURSIVE build_levels(_, _, _)
build_levels(ns, current_start, current_count) ==
    IF current_count > 1
    THEN LET next_count == (current_count + 1) \div 2
             parent_nodes ==
                 [i \in 1..next_count |->
                     parent_node(ns, current_start, current_count, i - 1)]
         IN build_levels(ns \o parent_nodes, current_start + current_count,
                         next_count)
    ELSE ns

rebuild_tree(self) ==
    IF self.leaf_count = 0
    THEN [self EXCEPT !.nodes = truncate(self.nodes, self.leaf_count)]
    ELSE IF self.leaf_count = 1
    THEN [self EXCEPT !.nodes = truncate(self.nodes, 1)]
    ELSE LET current_leaves == SelectSeq(self.nodes, is_leaf)
         IN [self EXCEPT !.nodes = build_levels(current_leaves, 0, self.leaf_count)]

\* (lo..hi).into_par_iter().map(..).collect() of rebuild_tree_parallel (built
\* with the "parallel" feature): the index range is split in halves, each
\* half is mapped by whichever worker takes it, reading the layer below
\* only, and the halves' results are joined in index order.
RECURSIVE par_map_collect(_, _, _, _, _)
par_map_collect(ns, current_start, current_count, lo, hi) ==
    IF hi - lo = 0 THEN <<>>
    ELSE IF hi - lo = 1
    THEN <<parent_node(ns, current_start, current_count, lo)>>
    ELSE LET mid == lo + (hi - lo) \div 2
         IN par_map_collect(ns, current_start, current_count, lo, mid)
            \o par_map_collect(ns, current_start, current_count, mid, hi)

\* The same parallel map seen worker by worker.  slots holds the parents the
\* workers have produced so far, by index i of 0..next_count, and done the
\* indices in the order in which the workers finished.
\* Mutant of collect: the results are taken in the order of completion.
collect_in_completion_order(slots, done) ==
    [k \in 1..Len(done) |-> slots[done[k]]]

\* .collect() of the indexed parallel iterator, once every index is done:
\* the results in index order, whatever the order of completion was.
collect(slots, done) ==
    [k \in 1..Len(done) |-> slots[k - 1]]

\* One worker's run of the closure for index i (lines 128-154): it reads the
\* layer below in self.nodes, which no worker writes, and produces the
\* parent of index i.
worker_step(b, ns, i) ==
    [b EXCEPT
       !.slots = [j \in (DOMAIN b.slots) \cup {i} |->
                    IF j = i
                    THEN parent_node(ns, b.current_start, b.current_count, i)
                    ELSE b.slots[j]],
       !.done = Append(b.done, i),
       !.out_of_order = b.out_of_order
                          \/ \E j \in 0..(i - 1) : j \notin DOMAIN b.slots]

RECURSIVE build_levels_parallel(_, _, _)
build_levels_parallel(ns, current_start, current_count) ==
    IF current_count > 1
    THEN LET next_count == (current_count + 1) \div 2
             parent_nodes ==
                 par_map_collect(ns, current_start, current_count, 0, next_count)
         IN build_levels_parallel(ns \o parent_nodes,
                                  current_start + current_count, next_count)
    ELSE ns

rebuild_tree_parallel(self) ==
    IF self.leaf_count = 0
    THEN [self EXCEPT !.nodes = truncate(self.nodes, self.leaf_count)]
    ELSE IF self.leaf_count = 1
    THEN [self EXCEPT !.nodes = truncate(self.nodes, 1)]
    ELSE LET current_leaves == SelectSeq(self.nodes, is_leaf)
         IN [self EXCEPT
               !.nodes = build_levels_parallel(current_leaves, 0, self.leaf_count)]

\* Mutant of update_tree_incremental: no node is recomputed.
update_tree_incremental_noop(self) == self

update_tree_incremental(self) ==
    IF self.config.parallel_construction
    THEN rebuild_tree_parallel(self)
    ELSE rebuild_tree(self)

\* ------------------------------------------------------------- security.rs
input_validation_failure(input_type) ==
    [event_type |-> "InputValidationFailure", input_type |-> input_type]
proof_verification_success(leaf_index, proof_timestamp) ==
    [event_type |-> "ProofVerificationSuccess", leaf_index |-> leaf_index,
     proof_timestamp |-> proof_timestamp]
proof_verification_failure(leaf_index, proof_timestamp) ==
    [event_type |-> "ProofVerificationFailure", leaf_index |-> leaf_index,
     proof_timestamp |-> proof_timestamp]
leaf_insertion(leaf_index, timestamp) ==
    [event_type |-> "LeafInsertion", leaf_index |-> leaf_index,
     timestamp |-> timestamp]

\* ------------------------------------------------------------ validation.rs
\* current_time is the value current_timestamp() returns during the call.
validate_insert_inputs(self, data, timestamp, current_time) ==
    LET one_year_future == wide_add(current_time, <<1, 0>>)
        hundred_years_ago == <<100, 0>>
        hundred_years_past == wide_saturating_sub(current_time, hundred_years_ago)
    IN
    IF data_len(data) > MAX_DATA_SIZE
    THEN [result |-> Err([type |-> "InvalidConfiguration", parameter |-> "data"]),
          events |-> <<input_validation_failure("data")>>]
    ELSE IF data = <<>>
    THEN [result |-> Err([type |-> "InvalidConfiguration", parameter |-> "data"]),
          events |-> <<input_validation_failure("data")>>]
    ELSE IF wide_lt(one_year_future, wide(timestamp))
    THEN [result |-> Err([type |-> "InvalidTimestamp", timestamp |-> timestamp]),
          events |-> <<input_validation_failure("timestamp")>>]
    ELSE IF wide_lt(wide(timestamp), hundred_years_past)
    THEN [result |-> Err([type |-> "InvalidTimestamp", timestamp |-> timestamp]),
          events |-> <<input_validation_failure("timestamp")>>]
    ELSE IF find_exact(self.sparse_index, timestamp) # None
    THEN [result |-> Ok(<<>>),
          events |-> <<input_validation_failure("timestamp")>>]
    ELSE [result |-> Ok(<<>>), events |-> <<>>]

\* ------------------------------------------------------------- operations.rs
\* The part of insert that runs once validation has passed and the leaf is
\* pushed: lines 42-70, the rebuild and the delta emission.
insert_rebuild(self) ==
    IF self.incremental_updates
    THEN update_tree_incremental(self)
    ELSE IF self.config.parallel_construction
    THEN rebuild_tree_parallel(self)
    ELSE rebuild_tree(self)

\* Mutant of insert_delta: a delta is emitted whether or not the root changed.
insert_delta_always(self, old_root, timestamp) ==
    IF self.config.enable_deltas /\ old_root # None
    THEN LET delta_node == delta(hash_pair(old_root[1], root(self)[1]),
                                 old_root[1], timestamp)
             deltas == Append(self.stored_deltas, delta_node)
         IN [self EXCEPT
               !.stored_deltas = deltas,
               !.delta_chains =
                   SparseIndex_insert(self.delta_chains, timestamp,
                                      Len(deltas) - 1)]
    ELSE self

\* Mutant of insert_delta: the digest pairs the new root with the old one.
insert_delta_swapped(self, old_root, timestamp) ==
    IF self.config.enable_deltas /\ old_root # None /\ old_root # root(self)
    THEN LET delta_node == delta(hash_pair(root(self)[1], old_root[1]),
                                 old_root[1], timestamp)
             deltas == Append(self.stored_deltas, delta_node)
         IN [self EXCEPT
               !.stored_deltas = deltas,
               !.delta_chains =
                   SparseIndex_insert(self.delta_chains, timestamp,
                                      Len(deltas) - 1)]
    ELSE self

insert_delta(self, old_root, timestamp) ==
    IF self.config.enable_deltas /\ old_root # None
    THEN LET old_root_hash == old_root[1]
             new_root_hash == root(self)[1]
         IN IF old_root_hash # new_root_hash
            THEN LET delta_hash == hash_pair(old_root_hash, new_root_hash)
                     delta_node == delta(delta_hash, old_root_hash, timestamp)
                     deltas == Append(self.stored_deltas, delta_node)
                 IN [self EXCEPT
                       !.stored_deltas = deltas,
                       !.delta_chains =
                           SparseIndex_insert(self.delta_chains, timestamp,
                                              Len(deltas) - 1)]
            ELSE self
    ELSE self

\* Mutant of insert: the leaf is pushed before the inputs are validated.
insert_push_first(self, data, timestamp, current_time) ==
    LET v == validate_insert_inputs(self, data, timestamp, current_time)
        pushed == [self EXCEPT
                     !.nodes = Append(self.nodes,
                                      leaf(hash(data), timestamp, Some(data))),
                     !.leaf_count = self.leaf_count + 1]
    IN [self |-> IF v.result.kind = "Err" THEN pushed
                 ELSE insert_delta(insert_rebuild(
                          [pushed EXCEPT
                             !.sparse_index =
                                 SparseIndex_insert(pushed.sparse_index, timestamp,
                                                    pushed.leaf_count - 1)]),
                          root(self), timestamp),
        result |-> v.result,
        events |-> v.events]

insert(self, data, timestamp, current_time) ==
    LET v == validate_insert_inputs(self, data, timestamp, current_time) IN
    IF v.result.kind = "Err"
    THEN [self |-> self, result |-> v.result, events |-> v.events]
    ELSE LET old_root == root(self)
             h == hash(data)
             pushed == [self EXCEPT
                          !.nodes = Append(self.nodes, leaf(h, timestamp, Some(data))),
                          !.leaf_count = self.leaf_count + 1]
             leaf_index == pushed.leaf_count - 1
             indexed == [pushed EXCEPT
                           !.sparse_index =
                               SparseIndex_insert(pushed.sparse_index, timestamp,
                                                  leaf_index)]
             rebuilt == insert_rebuild(indexed)
             final == insert_delta(rebuilt, old_root, timestamp)
         IN [self |-> final, result |-> Ok(<<>>),
             events |-> Append(v.events, leaf_insertion(leaf_index, timestamp))]

\* The indices 0 .. leaf_count-1 of self.nodes[..self.leaf_count], in order.
leaf_indices(self) == [i \in 1..self.leaf_count |-> i - 1]

\* Vec::sort on indices.
RECURSIVE sort(_)
sort(v) ==
    IF v = <<>> THEN <<>>
    ELSE LET least == CHOOSE x \in {v[i] : i \in 1..Len(v)} :
                         \A i \in 1..Len(v) : x <= v[i]
             first == CHOOSE i \in 1..Len(v) :
                         v[i] = least /\ \A j \in 1..(i - 1) : v[j] # least
         IN <<least>> \o sort(SubSeq(v, 1, first - 1) \o SubSeq(v, first + 1, Len(v)))

\* Mutant of find_by_timestamp: the sparse index answers instead of the scan.
find_by_timestamp_via_index(self, timestamp) ==
    IF find_exact(self.sparse_index, timestamp) = None THEN <<>>
    ELSE <<find_exact(self.sparse_index, timestamp)[1]>>

find_by_timestamp(self, timestamp) ==
    SelectSeq(leaf_indices(self),
              LAMBDA idx : /\ is_leaf(At(self.nodes, idx))
                           /\ At(self.nodes, idx).timestamp = timestamp)

\* Mutant of find_range: the end of the range is exclusive.
find_range_exclusive_end(self, start, end) ==
    sort(SelectSeq(leaf_indices(self),
                   LAMBDA idx : /\ is_leaf(At(self.nodes, idx))
                                /\ At(self.nodes, idx).timestamp >= start
                                /\ At(self.nodes, idx).timestamp < end))

find_range(self, start, end) ==
    LET indices == SelectSeq(leaf_indices(self),
                             LAMBDA idx : /\ is_leaf(At(self.nodes, idx))
                                          /\ At(self.nodes, idx).timestamp >= start
                                          /\ At(self.nodes, idx).timestamp <= end)
    IN sort(indices)

\* Rebuild of the sparse index over the kept leaves, in vector order
\* (`for (idx, timestamp) in timestamps_to_keep.into_iter().enumerate()`).
RECURSIVE index_all(_, _, _)
index_all(si, ns, i) ==
    IF i >= Len(ns) THEN si
    ELSE index_all(SparseIndex_insert(si, At(ns, i).timestamp, i), ns, i + 1)

\* Rebuild of the delta index over the delta log, in vector order: a node
\* that is not a Delta is skipped but still counts as a position
\* (`for (i, delta) in stored_deltas.iter().enumerate()
\*      { if let NodeType::Delta { timestamp, .. } = .. { insert(ts, i) } }`).
RECURSIVE index_deltas(_, _, _)
index_deltas(si, ns, i) ==
    IF i >= Len(ns) THEN si
    ELSE IF At(ns, i).type = "Delta"
    THEN index_deltas(SparseIndex_insert(si, At(ns, i).timestamp, i), ns, i + 1)
    ELSE index_deltas(si, ns, i + 1)

\* Mutant of prune_deltas: the delta index is left as it was.
prune_deltas_stale_index(self, keep_after_timestamp) ==
    [self EXCEPT
       !.stored_deltas =
           SelectSeq(self.stored_deltas,
                     LAMBDA d : ~(d.type = "Delta"
                                  /\ d.timestamp < keep_after_timestamp))]

prune_deltas(self, keep_after_timestamp) ==
    LET kept == SelectSeq(self.stored_deltas,
                          LAMBDA d : ~(d.type = "Delta" /\ d.timestamp < keep_after_timestamp))
    IN [self EXCEPT
          !.stored_deltas = kept,
          !.delta_chains =
              index_deltas(SparseIndex_new(self.config.sparse_index_sparsity),
                           kept, 0)]

extract_leaves_and_deltas(self) ==
    <<SubSeq(self.nodes, 1, self.leaf_count), self.stored_deltas>>

\* The loop "for leaf in leaves { tree.insert(..)? }" of
\* reconstruct_from_leaves_and_deltas, from position i on.
RECURSIVE reconstruct_insert_leaves(_, _, _, _)
reconstruct_insert_leaves(tree, leaves, i, current_time) ==
    IF i > Len(leaves) THEN Ok(tree)
    ELSE IF leaves[i].type = "Leaf"
    THEN LET r == insert(tree, unwrap_or(leaves[i].data, <<>>),
                         leaves[i].timestamp, current_time)
         IN IF r.result.kind = "Err" THEN r.result
            ELSE reconstruct_insert_leaves(r.self, leaves, i + 1, current_time)
    ELSE reconstruct_insert_leaves(tree, leaves, i + 1, current_time)

\* current_time is the value current_timestamp() returns during the inserts.
reconstruct_from_leaves_and_deltas(leaves, deltas, config, current_time) ==
    LET made == with_config(config) IN
    IF made.kind = "Err" THEN made
    ELSE LET inserted == reconstruct_insert_leaves(made.val, leaves, 1, current_time)
         IN IF inserted.kind = "Err" THEN inserted
            ELSE Ok([inserted.val EXCEPT
                       !.stored_deltas = deltas,
                       !.delta_chains =
                           index_deltas(inserted.val.delta_chains, deltas, 0)])

\* ----------------------------------------------------------------- delta.rs
get_delta_chain(self, timestamp) ==
    LET found == find_exact(self.delta_chains, timestamp) IN
    IF found # None
    THEN LET delta_index == found[1]
         IN SubSeq(self.stored_deltas, delta_index + 1, Len(self.stored_deltas))
    ELSE <<>>

\* The loop of verify_delta from position i of delta_proof on; current_hash
\* is the loop variable of the same name.
RECURSIVE verify_delta_loop(_, _, _, _)
verify_delta_loop(current_hash, new_root, delta_proof, i) ==
    IF i > Len(delta_proof) THEN Ok(current_hash = new_root)
    ELSE LET delta_node == delta_proof[i] IN
         IF delta_node.type = "Delta"
         THEN LET expected_delta == hash_pair(delta_node.base_hash, new_root)
              IN IF delta_node.delta_hash # expected_delta
                 THEN Ok(FALSE)
                 ELSE verify_delta_loop(new_root, new_root, delta_proof, i + 1)
         ELSE verify_delta_loop(current_hash, new_root, delta_proof, i + 1)

verify_delta(old_root, new_root, delta_proof) ==
    verify_delta_loop(old_root, new_root, delta_proof, 1)

apply_delta_rollback(self, delta_node) ==
    IF delta_node.type = "Delta"
    THEN IF self.leaf_count > 0
         THEN LET leaf_count_new == self.leaf_count - 1
                  truncated ==
                      [self EXCEPT
                         !.leaf_count = leaf_count_new,
                         !.nodes = truncate(self.nodes,
                                            leaf_count_new
                                              + Max(leaf_count_new - 1, 0))]
              IN [self |-> rebuild_tree(truncated), result |-> Ok(<<>>)]
         ELSE [self |-> self, result |-> Ok(<<>>)]
    ELSE [self |-> self,
          result |-> Err([type |-> "InvalidNodeType",
                          operation |-> "apply_delta_rollback"])]

\* What the second half of rollback_to_timestamp does once the leaves to
\* keep are chosen (lines 107-137).
rollback_replace(self, leaves_to_keep, target_timestamp) ==
    LET replaced == [self EXCEPT
                       !.nodes = leaves_to_keep,
                       !.leaf_count = Len(leaves_to_keep),
                       !.sparse_index =
                           index_all(SparseIndex_new(self.config.sparse_index_sparsity),
                                     leaves_to_keep, 0)]
        rebuilt == rebuild_tree(replaced)
        kept == SelectSeq(rebuilt.stored_deltas,
                          LAMBDA d : d.type # "Delta" \/ d.timestamp <= target_timestamp)
    IN [rebuilt EXCEPT
          !.stored_deltas = kept,
          !.delta_chains =
              index_deltas(SparseIndex_new(self.config.sparse_index_sparsity),
                           kept, 0)]

\* Mutant of rollback_to_timestamp: the derived layers are not rebuilt.
rollback_to_timestamp_no_rebuild(self, target_timestamp) ==
    LET leaves_to_keep ==
            SelectSeq(self.nodes,
                      LAMBDA n : is_leaf(n) /\ n.timestamp <= target_timestamp)
        done == rollback_replace(self, leaves_to_keep, target_timestamp)
    IN
    IF self.leaf_count = 0 \/ leaves_to_keep = <<>>
    THEN [self |-> self,
          result |-> Err([type |-> "InvalidTimestamp", timestamp |-> target_timestamp])]
    ELSE [self |-> [done EXCEPT !.nodes = leaves_to_keep], result |-> Ok(<<>>)]

\* Mutant of rollback_to_timestamp: deltas are kept only when strictly
\* older than the target.
rollback_to_timestamp_strict_deltas(self, target_timestamp) ==
    LET leaves_to_keep ==
            SelectSeq(self.nodes,
                      LAMBDA n : is_leaf(n) /\ n.timestamp <= target_timestamp)
    IN
    IF self.leaf_count = 0 \/ leaves_to_keep = <<>>
    THEN [self |-> self,
          result |-> Err([type |-> "InvalidTimestamp", timestamp |-> target_timestamp])]
    ELSE LET done == rollback_replace(self, leaves_to_keep, target_timestamp)
             kept == SelectSeq(done.stored_deltas,
                               LAMBDA d : d.type # "Delta" \/ d.timestamp < target_timestamp)
         IN [self |-> [done EXCEPT
                         !.stored_deltas = kept,
                         !.delta_chains =
                             index_deltas(SparseIndex_new(self.config.sparse_index_sparsity),
                                          kept, 0)],
             result |-> Ok(<<>>)]

rollback_to_timestamp(self, target_timestamp) ==
    IF self.leaf_count = 0
    THEN [self |-> self,
          result |-> Err([type |-> "InvalidTimestamp", timestamp |-> target_timestamp])]
    ELSE
    LET leaves_to_keep ==
            SelectSeq(self.nodes,
                      LAMBDA n : is_leaf(n) /\ n.timestamp <= target_timestamp)
    IN
    IF leaves_to_keep = <<>>
    THEN [self |-> self,
          result |-> Err([type |-> "InvalidTimestamp", timestamp |-> target_timestamp])]
    ELSE
    [self |-> rollback_replace(self, leaves_to_keep, target_timestamp),
     result |-> Ok(<<>>)]

\* -------------------------------------------------------------- security.rs
\* result |= x ^ y over all positions, then result == 0.
RECURSIVE ct_accumulate(_, _, _, _)
ct_accumulate(a, b, i, differs) ==
    IF i > Len(a) THEN differs
    ELSE ct_accumulate(a, b, i + 1, differs \/ a[i] # b[i])

\* Mutant of ct_loop: the loop is left at the first differing position.
RECURSIVE ct_loop_early_exit(_, _, _, _)
ct_loop_early_exit(a, b, i, differs) ==
    IF i > Min(Len(a), Len(b)) \/ differs
    THEN [differs |-> differs, iterations |-> i - 1]
    ELSE ct_loop_early_exit(a, b, i + 1, differs \/ a[i] # b[i])

\* The loop "for (x, y) in a.iter().zip(b.iter()) { result |= x ^ y }" from
\* position i on, with the number of iterations it has run.
RECURSIVE ct_loop(_, _, _, _)
ct_loop(a, b, i, differs) ==
    IF i > Min(Len(a), Len(b))
    THEN [differs |-> differs, iterations |-> i - 1]
    ELSE ct_loop(a, b, i + 1, differs \/ a[i] # b[i])

\* constant_time_eq with the number of loop iterations of the call.
constant_time_eq_counted(a, b) ==
    IF Len(a) # Len(b) THEN [result |-> FALSE, iterations |-> 0]
    ELSE LET done == ct_loop(a, b, 1, FALSE)
         IN [result |-> ~done.differs, iterations |-> done.iterations]

\* Mutant of constant_time_eq: the comparison stops before the last byte.
constant_time_eq_short(a, b) ==
    IF Len(a) # Len(b) THEN FALSE
    ELSE SubSeq(a, 1, Len(a) - 1) = SubSeq(b, 1, Len(b) - 1)

constant_time_eq(a, b) ==
    IF Len(a) # Len(b) THEN FALSE
    ELSE ~ct_accumulate(a, b, 1, FALSE)

\* ----------------------------------------------------------------- proof.rs
Left(h) == [side |-> "Left", sibling |-> h]
Right(h) == [side |-> "Right", sibling |-> h]
Delta(old_hash, new_hash) ==
    [side |-> "Delta", old_hash |-> old_hash, new_hash |-> new_hash]

ChronoProof_new(leaf_index, timestamp) ==
    [leaf_index |-> leaf_index, path |-> <<>>, delta_chain |-> None,
     programmable_results |-> <<>>, timestamp |-> timestamp]

ProofFailed == Err([type |-> "ProofVerificationFailed"])

\* Mutant of verify_path: every Delta step is checked against the first
\* entry of the delta chain.
RECURSIVE verify_path_first_entry(_, _, _, _)
verify_path_first_entry(proof, i, current_hash, delta_index) ==
    IF i > Len(proof.path)
    THEN Ok([current_hash |-> current_hash, delta_index |-> delta_index])
    ELSE LET step == proof.path[i] IN
         IF step.side = "Left"
         THEN verify_path_first_entry(proof, i + 1,
                                      hash_pair(step.sibling, current_hash), delta_index)
         ELSE IF step.side = "Right"
         THEN verify_path_first_entry(proof, i + 1,
                                      hash_pair(current_hash, step.sibling), delta_index)
         ELSE IF \/ current_hash # step.old_hash
                 \/ step.new_hash = step.old_hash
                 \/ proof.delta_chain = None
                 \/ proof.delta_chain[1] = <<>>
         THEN ProofFailed
         ELSE IF proof.delta_chain[1][1] # hash_pair(step.old_hash, step.new_hash)
         THEN ProofFailed
         ELSE verify_path_first_entry(proof, i + 1, step.new_hash, delta_index)

\* The loop over proof.path: returns the running hash and the number of
\* delta chain entries consumed, or the error that stopped it.
RECURSIVE verify_path(_, _, _, _)
verify_path(proof, i, current_hash, delta_index) ==
    IF i > Len(proof.path)
    THEN Ok([current_hash |-> current_hash, delta_index |-> delta_index])
    ELSE LET step == proof.path[i] IN
         IF step.side = "Left"
         THEN verify_path(proof, i + 1, hash_pair(step.sibling, current_hash),
                          delta_index)
         ELSE IF step.side = "Right"
         THEN verify_path(proof, i + 1, hash_pair(current_hash, step.sibling),
                          delta_index)
         ELSE IF ~constant_time_eq(current_hash, step.old_hash) THEN ProofFailed
         ELSE IF constant_time_eq(step.new_hash, step.old_hash) THEN ProofFailed
         ELSE IF proof.delta_chain = None THEN ProofFailed
         ELSE IF delta_index >= Len(proof.delta_chain[1]) THEN ProofFailed
         ELSE IF ~constant_time_eq(At(proof.delta_chain[1], delta_index),
                                   hash_pair(step.old_hash, step.new_hash))
         THEN ProofFailed
         ELSE verify_path(proof, i + 1, step.new_hash, delta_index + 1)

\* Mutant of proof_verify_proof: the folded hash is compared with the root
\* before the programmable results are looked at.
proof_verify_proof_root_first(proof, leaf_hash, root_hash) ==
    LET walked == verify_path(proof, 1, leaf_hash, 0) IN
    IF walked.kind = "Err" THEN walked
    ELSE IF ~constant_time_eq(walked.val.current_hash, root_hash)
    THEN Ok(FALSE)
    ELSE IF \E j \in 1..Len(proof.programmable_results) :
                ~proof.programmable_results[j]
    THEN Err([type |-> "ValidationFailed"])
    ELSE Ok(TRUE)

proof_verify_proof(proof, leaf_hash, root_hash) ==
    LET walked == verify_path(proof, 1, leaf_hash, 0) IN
    IF walked.kind = "Err" THEN walked
    ELSE IF \E j \in 1..Len(proof.programmable_results) :
                ~proof.programmable_results[j]
    THEN Err([type |-> "ValidationFailed"])
    ELSE Ok(constant_time_eq(walked.val.current_hash, root_hash))

\* ---------------------------------------------------------------- proofs.rs
\* chunks(2) of one level, each chunk combined into its parent.
next_level_of(current_level) ==
    [j \in 1..((Len(current_level) + 1) \div 2) |->
        IF 2 * j <= Len(current_level)
        THEN hash_pair(current_level[2 * j - 1], current_level[2 * j])
        ELSE hash_pair(current_level[2 * j - 1], current_level[2 * j - 1])]

\* Mutant of proof_loop: an unpaired last element gets the first element of
\* its layer as sibling instead of itself.
RECURSIVE proof_loop_no_duplicate(_, _, _)
proof_loop_no_duplicate(current_level, current_index, path) ==
    IF Len(current_level) > 1
    THEN LET sibling_index == IF current_index % 2 = 0
                              THEN current_index + 1
                              ELSE current_index - 1
             sibling_hash == IF sibling_index < Len(current_level)
                             THEN At(current_level, sibling_index)
                             ELSE At(current_level, 0)
             step == IF current_index % 2 = 0
                     THEN Right(sibling_hash)
                     ELSE Left(sibling_hash)
         IN proof_loop_no_duplicate(next_level_of(current_level),
                                    current_index \div 2, Append(path, step))
    ELSE path

\* Mutant of proof_loop: an even index yields a Left step, an odd one a
\* Right step.
RECURSIVE proof_loop_sides_swapped(_, _, _)
proof_loop_sides_swapped(current_level, current_index, path) ==
    IF Len(current_level) > 1
    THEN LET sibling_index == IF current_index % 2 = 0
                              THEN current_index + 1
                              ELSE current_index - 1
             sibling_hash == IF sibling_index < Len(current_level)
                             THEN At(current_level, sibling_index)
                             ELSE At(current_level, current_index)
             step == IF current_index % 2 = 0
                     THEN Left(sibling_hash)
                     ELSE Right(sibling_hash)
         IN proof_loop_sides_swapped(next_level_of(current_level),
                                     current_index \div 2, Append(path, step))
    ELSE path

RECURSIVE proof_loop(_, _, _)
proof_loop(current_level, current_index, path) ==
    IF Len(current_level) > 1
    THEN LET next_index == current_index \div 2
             sibling_index == IF current_index % 2 = 0
                              THEN current_index + 1
                              ELSE current_index - 1
             sibling_hash == IF sibling_index < Len(current_level)
                             THEN At(current_level, sibling_index)
                             ELSE At(current_level, current_index)
             step == IF current_index % 2 = 0
                     THEN Right(sibling_hash)
                     ELSE Left(sibling_hash)
         IN proof_loop(next_level_of(current_level), next_index,
                       Append(path, step))
    ELSE path

generate_proof(self, leaf_index) ==
    IF leaf_index >= self.leaf_count
    THEN Err([type |-> "IndexOutOfBounds", index |-> leaf_index,
              leaf_count |-> self.leaf_count])
    ELSE LET timestamp == timestamp_info(At(self.nodes, leaf_index))[1]
             proof == ChronoProof_new(leaf_index, timestamp)
         IN IF self.leaf_count = 1 THEN Ok(proof)
            ELSE LET level0 == [i \in 1..self.leaf_count |->
                                   node_hash(self.nodes[i])]
                 IN Ok([proof EXCEPT
                          !.path = proof_loop(level0, leaf_index, <<>>)])

get_leaf(self, index) ==
    IF index >= self.leaf_count
    THEN Err([type |-> "IndexOutOfBounds", index |-> index,
              leaf_count |-> self.leaf_count])
    ELSE Ok(At(self.nodes, index))

\* Mutant of verify_proof: the declared timestamp is compared after the path
\* has been verified.
verify_proof_timestamp_last(self, proof) ==
    IF root(self) = None THEN Err([type |-> "EmptyTree"])
    ELSE LET got == get_leaf(self, proof.leaf_index) IN
         IF got.kind = "Err" THEN got
         ELSE LET result == proof_verify_proof(proof, node_hash(got.val), root(self)[1])
              IN IF result.kind = "Err" THEN result
                 ELSE IF proof.timestamp # timestamp_info(got.val)[1] THEN Ok(FALSE)
                 ELSE result

\* Mutant of verify_proof: the leaf is fetched before the root.
verify_proof_leaf_first(self, proof) ==
    LET got == get_leaf(self, proof.leaf_index) IN
    IF got.kind = "Err" THEN got
    ELSE IF root(self) = None THEN Err([type |-> "EmptyTree"])
    ELSE IF proof.timestamp # timestamp_info(got.val)[1] THEN Ok(FALSE)
    ELSE proof_verify_proof(proof, node_hash(got.val), root(self)[1])

\* Mutant of verify_proof: a proof with the right timestamp is accepted
\* without its path being folded.
verify_proof_skip_path(self, proof) ==
    IF root(self) = None THEN Err([type |-> "EmptyTree"])
    ELSE LET got == get_leaf(self, proof.leaf_index) IN
         IF got.kind = "Err" THEN got
         ELSE Ok(proof.timestamp = timestamp_info(got.val)[1])

verify_proof(self, proof) ==
    IF root(self) = None THEN Err([type |-> "EmptyTree"])
    ELSE LET root_hash == root(self)[1]
             got == get_leaf(self, proof.leaf_index)
         IN IF got.kind = "Err" THEN got
            ELSE LET leaf_hash == node_hash(got.val)
                     actual_timestamp == timestamp_info(got.val)[1]
                 IN IF proof.timestamp # actual_timestamp THEN Ok(FALSE)
                    ELSE proof_verify_proof(proof, leaf_hash, root_hash)

\* verify_proof together with the events it hands to the logger; the value
\* log_event returns is dropped (let _ =).
verify_proof_logged(self, proof) ==
    IF root(self) = None
    THEN [result |-> Err([type |-> "EmptyTree"]), events |-> <<>>]
    ELSE LET root_hash == root(self)[1]
             got == get_leaf(self, proof.leaf_index)
         IN IF got.kind = "Err" THEN [result |-> got, events |-> <<>>]
            ELSE LET leaf_hash == node_hash(got.val)
                     actual_timestamp == timestamp_info(got.val)[1]
                 IN IF proof.timestamp # actual_timestamp
                    THEN [result |-> Ok(FALSE),
                          events |-> <<proof_verification_failure(
                                          proof.leaf_index, proof.timestamp)>>]
                    ELSE LET result == proof_verify_proof(proof, leaf_hash, root_hash)
                         IN IF result.kind = "Err"
                            THEN [result |-> result, events |-> <<>>]
                            ELSE IF result.val
                            THEN [result |-> result,
                                  events |-> <<proof_verification_success(
                                                  proof.leaf_index, proof.timestamp)>>]
                            ELSE [result |-> result,
                                  events |-> <<proof_verification_failure(
                                                  proof.leaf_index, proof.timestamp)>>]

\* ======================================================== the state machine
\* The fields of ChronoMerkleTree (tree.rs), the events the logger received
\* during the last call, two history variables, a call counter, and the
\* position of an insert whose parallel build is taken worker by worker
\* (build; idle in every specification but SpecParallel).  lastOp names the last
\* call, its timestamp argument and whether it returned Ok.  hist is the
\* sequence of roots observed right after each insert of the current run of
\* inserts: hist[i] is the root seen after the insert that created the leaf
\* at index i-1.  A rollback that keeps a prefix of the leaves keeps hist
\* (so that Len(hist) - leaf_count inserts are rolled back), the next insert
\* then overwrites the rolled-back part, and a rollback that removes a leaf
\* from the middle drops hist for good (<<>>).
VARIABLES nodes, leaf_count, sparse_index, config, incremental_updates,
          delta_chains, stored_deltas, logged, lastOp, hist, applied, build

tree_vars == <<nodes, leaf_count, sparse_index, config, incremental_updates,
               delta_chains, stored_deltas>>
vars == <<nodes, leaf_count, sparse_index, config, incremental_updates,
          delta_chains, stored_deltas, logged, lastOp, hist, applied, build>>

Self ==
    [nodes |-> nodes, leaf_count |-> leaf_count, sparse_index |-> sparse_index,
     config |-> config, incremental_updates |-> incremental_updates,
     delta_chains |-> delta_chains, stored_deltas |-> stored_deltas]

Becomes(t) ==
    /\ nodes' = t.nodes
    /\ leaf_count' = t.leaf_count
    /\ sparse_index' = t.sparse_index
    /\ config' = t.config
    /\ incremental_updates' = t.incremental_updates
    /\ delta_chains' = t.delta_chains
    /\ stored_deltas' = t.stored_deltas

\* ------------------------------------------------------------------ inputs
DataA == << <<97, 1>> >>
DataB == << <<98, 1>> >>
DataEmpty == <<>>
DataOversize == << <<0, 2 * MAX_DATA_SIZE>> >>
DataValues == {DataEmpty, DataA, DataB, DataOversize}

\* The clock of a no-std build (0), and a clock 100 years and 2 seconds
\* after the epoch, for which timestamps below 2 are too old.
ClockZero == <<0, 0>>
ClockLate == <<100, 2>>
Clocks == {ClockZero, ClockLate}

FarFuture == ONE_YEAR + 1
Timestamps == 1..MaxTag

\* The calls of insert the model makes, as <<data, timestamp, clock>>: every
\* valid payload at every tag, and one call for each way validation fails
\* or just passes.
InsertInputs ==
    ({DataA, DataB} \X Timestamps \X {ClockZero})
    \cup { <<DataEmpty, 1, ClockZero>>, <<DataOversize, 1, ClockZero>>,
           <<DataOversize, FarFuture, ClockZero>>,
           <<DataA, FarFuture, ClockZero>>,
           <<DataA, 1, ClockLate>>, <<DataB, 2, ClockLate>> }
Targets == 0..MaxTag
PruneTargets == 1..(MaxTag + 1)

Configs ==
    [sparse_index_sparsity : {1, 2}, enable_deltas : BOOLEAN,
     incremental_updates : {TRUE}, max_depth : {32},
     parallel_construction : {FALSE}]

\* No parallel build is running.  During one, build holds the locals of
\* insert (old_root, timestamp, the events to log) and of
\* rebuild_tree_parallel (current_start, current_count, the workers' slots);
\* out_of_order records that some worker of the last build finished before
\* a worker of a lower index.
IdleBuild ==
    [active |-> FALSE, old_root |-> None, timestamp |-> 0, events |-> <<>>,
     current_start |-> 0, current_count |-> 0, slots |-> EmptyMap,
     done |-> <<>>, out_of_order |-> FALSE]

\* -------------------------------------------------------------------- Init
\* A tree right after with_config(config) returned Ok.
InitFrom(configs) ==
    /\ \E c \in configs :
          /\ with_config(c).kind = "Ok"
          /\ LET t == with_config(c).val IN
                /\ nodes = t.nodes
                /\ leaf_count = t.leaf_count
                /\ sparse_index = t.sparse_index
                /\ config = t.config
                /\ incremental_updates = t.incremental_updates
                /\ delta_chains = t.delta_chains
                /\ stored_deltas = t.stored_deltas
          /\ logged = with_config_events(c)
    /\ lastOp = [op |-> "with_config", arg |-> 0, ok |-> TRUE]
    /\ hist = <<>>
    /\ applied = 0
    /\ build = IdleBuild

Init == InitFrom(Configs)

\* Every combination of the two build switches, with deltas enabled.
BuildConfigs ==
    [sparse_index_sparsity : {1, 2}, enable_deltas : {TRUE},
     incremental_updates : BOOLEAN, max_depth : {32},
     parallel_construction : BOOLEAN]
InitBuild == InitFrom(BuildConfigs)

\* Configurations on both sides of every limit TreeConfig::validate checks.
ConstructorConfigs ==
    [sparse_index_sparsity : {0, 1, 3}, enable_deltas : {TRUE},
     incremental_updates : {TRUE}, max_depth : {0, 1, 64, 65},
     parallel_construction : {FALSE}]
InitConstructor == InitFrom(ConstructorConfigs)

\* Configurations around the smallest max_depth; with_config accepts the
\* one with max_depth = 1 only.
ShallowConfigs ==
    [sparse_index_sparsity : {1}, enable_deltas : BOOLEAN,
     incremental_updates : {TRUE}, max_depth : {0, 1, 65},
     parallel_construction : {FALSE}]
InitShallow == InitFrom(ShallowConfigs)

\* ----------------------------------------------------------------- actions
\* apply_delta_rollback keeps the delta log and can keep the removed leaf
\* in the node vector, so that both grow without bound when the call
\* alternates with insert.  applied counts the apply_delta_rollback calls
\* that changed the tree; once it reaches MaxApplied one more call of any
\* other method is made.
MoreCalls == applied < MaxApplied \/ lastOp.op = "apply_delta_rollback"

InsertUpTo(cap) ==
    /\ MoreCalls
    /\ leaf_count < cap
    /\ \E in \in InsertInputs :
          LET r == insert(Self, in[1], in[2], in[3]) IN
          /\ Becomes(r.self)
          /\ logged' = r.events
          /\ lastOp' = [op |-> "insert", arg |-> in[2],
                        ok |-> r.result.kind = "Ok"]
          /\ hist' = IF r.result.kind = "Ok" /\ Len(hist) >= leaf_count
                     THEN Append(SubSeq(hist, 1, leaf_count), root(r.self)[1])
                     ELSE hist
          /\ applied' = applied
          /\ build' = build

Insert == InsertUpTo(MaxLeaves)

InsertOnly == InsertUpTo(MaxInsertOnly)

RollbackToTimestamp ==
    \E target \in Targets :
        LET r == rollback_to_timestamp(Self, target) IN
        /\ MoreCalls
        /\ Becomes(r.self)
        /\ logged' = <<>>
        /\ lastOp' = [op |-> "rollback_to_timestamp", arg |-> target,
                      ok |-> r.result.kind = "Ok"]
        /\ hist' = IF r.result.kind = "Err" THEN hist
                   ELSE IF /\ Len(hist) >= leaf_count
                           /\ SubSeq(nodes, 1, r.self.leaf_count)
                                  = SubSeq(r.self.nodes, 1, r.self.leaf_count)
                        THEN hist
                        ELSE <<>>
        /\ applied' = applied
        /\ build' = build

PruneDeltas ==
    \E keep_after \in PruneTargets :
        /\ MoreCalls
        /\ Becomes(prune_deltas(Self, keep_after))
        /\ logged' = <<>>
        /\ lastOp' = [op |-> "prune_deltas", arg |-> keep_after, ok |-> TRUE]
        /\ hist' = hist
        /\ applied' = applied
        /\ build' = build

\* The nodes handed to apply_delta_rollback: a Delta node and a node of
\* another type (the method reads the type of its argument only).
ApplyDeltaNodes ==
    {delta(hash(DataA), hash(DataB), 1), leaf(hash(DataA), 1, Some(DataA))}

ApplyDeltaRollback ==
    /\ applied < MaxApplied
    /\ \E delta_node \in ApplyDeltaNodes :
           LET r == apply_delta_rollback(Self, delta_node) IN
           /\ Becomes(r.self)
           /\ logged' = <<>>
           /\ lastOp' = [op |-> "apply_delta_rollback", arg |-> 0,
                         ok |-> r.result.kind = "Ok"]
           /\ hist' = IF r.self = Self THEN hist ELSE <<>>
           /\ applied' = IF r.self = Self THEN applied ELSE applied + 1
           /\ build' = build

\* Every method of the tree that changes its state.
Next == Insert \/ RollbackToTimestamp \/ PruneDeltas \/ ApplyDeltaRollback

Spec == Init /\ [][Next]_vars

\* The tree that receives insert, rollback_to_timestamp and prune_deltas
\* calls only.
NextCore == Insert \/ RollbackToTimestamp \/ PruneDeltas

SpecCore == Init /\ [][NextCore]_vars

\* The tree without prune_deltas calls.
NextNoPrune == Insert \/ RollbackToTimestamp

SpecNoPrune == Init /\ [][NextNoPrune]_vars

\* The tree that only receives inserts.
NextInsert == InsertOnly

SpecInsert == Init /\ [][NextInsert]_vars

\* Inserts into trees of every build configuration.
SpecBuild == InitBuild /\ [][NextInsert]_vars

\* Inserts into the trees the constructors return for ConstructorConfigs.
SpecConstructor == InitConstructor /\ [][NextInsert]_vars

\* Inserts into a tree configured with max_depth = 1.
SpecShallow == InitShallow /\ [][NextInsert]_vars

\* ------------------------------------------- insert with a parallel build
\* Trees with parallel_construction = true (built with the "parallel"
\* feature): both values of incremental_updates lead to
\* rebuild_tree_parallel.
ParallelConfigs ==
    [sparse_index_sparsity : {1, 2}, enable_deltas : {TRUE},
     incremental_updates : BOOLEAN, max_depth : {32},
     parallel_construction : {TRUE}]
InitParallel == InitFrom(ParallelConfigs)

\* insert up to the point where rebuild_tree_parallel hands the first layer
\* to the workers (operations.rs 26-44, rebuild.rs 90-119).  A call that
\* fails validation, and the insert of the first leaf, which starts no
\* worker, run to their end.
ParallelInsertBegin ==
    /\ ~build.active
    /\ config.parallel_construction
    /\ leaf_count < MaxInsertOnly
    /\ \E in \in InsertInputs :
          LET v == validate_insert_inputs(Self, in[1], in[2], in[3])
              whole == insert(Self, in[1], in[2], in[3])
              pushed == [Self EXCEPT
                           !.nodes = Append(nodes, leaf(hash(in[1]), in[2],
                                                        Some(in[1]))),
                           !.leaf_count = leaf_count + 1]
              leaf_index == pushed.leaf_count - 1
              indexed == [pushed EXCEPT
                            !.sparse_index =
                                SparseIndex_insert(pushed.sparse_index, in[2],
                                                   leaf_index)]
          IN IF v.result.kind = "Err" \/ pushed.leaf_count <= 1
             THEN /\ Becomes(whole.self)
                  /\ logged' = whole.events
                  /\ lastOp' = [op |-> "insert", arg |-> in[2],
                                ok |-> whole.result.kind = "Ok"]
                  /\ hist' = IF whole.result.kind = "Ok" /\ Len(hist) >= leaf_count
                             THEN Append(SubSeq(hist, 1, leaf_count),
                                         root(whole.self)[1])
                             ELSE hist
                  /\ build' = IdleBuild
             ELSE /\ Becomes([indexed EXCEPT
                                !.nodes = SelectSeq(indexed.nodes, is_leaf)])
                  /\ logged' = v.events
                  /\ lastOp' = lastOp
                  /\ hist' = hist
                  /\ build' = [active |-> TRUE, old_root |-> root(Self),
                               timestamp |-> in[2],
                               events |-> Append(v.events,
                                                 leaf_insertion(leaf_index, in[2])),
                               current_start |-> 0,
                               current_count |-> indexed.leaf_count,
                               slots |-> EmptyMap, done |-> <<>>,
                               out_of_order |-> FALSE]
    /\ applied' = applied

\* Any worker takes any index of the current layer that is not done yet.
ParallelWorker ==
    /\ build.active
    /\ build.current_count > 1
    /\ \E i \in 0..((build.current_count + 1) \div 2 - 1) :
          /\ i \notin DOMAIN build.slots
          /\ build' = worker_step(build, nodes, i)
    /\ UNCHANGED <<tree_vars, logged, lastOp, hist, applied>>

\* The join of a layer: every index is done, the collected parents are
\* appended and the loop moves one layer up (rebuild.rs 155-161).
ParallelJoin ==
    /\ build.active
    /\ build.current_count > 1
    /\ Len(build.done) = (build.current_count + 1) \div 2
    /\ nodes' = nodes \o collect(build.slots, build.done)
    /\ build' = [build EXCEPT
                   !.current_start = build.current_start + build.current_count,
                   !.current_count = (build.current_count + 1) \div 2,
                   !.slots = EmptyMap,
                   !.done = <<>>]
    /\ UNCHANGED <<leaf_count, sparse_index, config, incremental_updates,
                   delta_chains, stored_deltas, logged, lastOp, hist, applied>>

\* The rest of insert once the build has returned: the delta and the
\* insertion event (operations.rs 58-79).
ParallelInsertEnd ==
    /\ build.active
    /\ build.current_count <= 1
    /\ LET final == insert_delta(Self, build.old_root, build.timestamp) IN
          /\ Becomes(final)
          /\ hist' = IF Len(hist) >= leaf_count - 1
                     THEN Append(SubSeq(hist, 1, leaf_count - 1), root(final)[1])
                     ELSE hist
    /\ logged' = build.events
    /\ lastOp' = [op |-> "insert", arg |-> build.timestamp, ok |-> TRUE]
    /\ build' = [IdleBuild EXCEPT !.out_of_order = build.out_of_order]
    /\ applied' = applied

NextParallel ==
    ParallelInsertBegin \/ ParallelWorker \/ ParallelJoin \/ ParallelInsertEnd

SpecParallel == InitParallel /\ [][NextParallel]_vars

TypeOK ==
    /\ leaf_count \in 0..MaxInsertOnly
    /\ Len(hist) <= MaxInsertOnly
    /\ \/ hist = <<>>
       \/ Len(hist) >= leaf_count - (IF build.active THEN 1 ELSE 0)
    /\ applied \in 0..MaxApplied
    /\ build.active \in BOOLEAN

\* ================================================================== claims
\* The canonical combine of spec section 4.3, written from the text: layer 0
\* is the leaf hashes, each next layer pairs consecutive elements, an
\* unpaired last element is paired with itself, a single element is the root.
RECURSIVE canonical_root(_)
canonical_root(layer) ==
    IF layer = <<>> THEN None
    ELSE IF Len(layer) = 1 THEN Some(layer[1])
    ELSE canonical_root(
            [j \in 1..((Len(layer) + 1) \div 2) |->
                <<-1>> \o layer[2 * j - 1]
                       \o (IF 2 * j <= Len(layer) THEN layer[2 * j]
                           ELSE layer[2 * j - 1])
                       \o <<-2>>])

LeafHashes == [i \in 1..leaf_count |-> node_hash(nodes[i])]

\* C1: after any sequence of insert, rollback_to_timestamp and prune_deltas
\* calls, successful or failed, the first leaf_count nodes are the leaves, the
\* root is None iff there is no leaf, and otherwise it is the canonical
\* combine of the leaf hashes in leaf order.
C1_RootIsCanonicalCombine ==
    /\ leaf_count <= Len(nodes)
    /\ \A i \in 1..leaf_count : is_leaf(nodes[i])
    /\ (root(Self) = None) <=> (leaf_count = 0)
    /\ root(Self) = canonical_root(LeafHashes)

\* C1 witness: a three-leaf tree (an odd layer) right after a prune that
\* followed a rollback.
C1_Witness ==
    /\ leaf_count = 3
    /\ lastOp.op = "prune_deltas"
    /\ hist = <<>>
    /\ Len(stored_deltas) = 1
    /\ root(Self) = canonical_root(LeafHashes)

\* C2: in every state reachable by insert and rollback_to_timestamp, for
\* every leaf index k < leaf_count the proof generate_proof(k) returns is
\* accepted by verify_proof with Ok(true).
C2_ProofRoundTrip ==
    \A k \in 0..(leaf_count - 1) :
        /\ generate_proof(Self, k).kind = "Ok"
        /\ verify_proof(Self, generate_proof(Self, k).val) = Ok(TRUE)

\* C2 witness: after a rollback, a three-leaf tree whose last leaf is the
\* unpaired element of layer 0; its proof starts with its own hash as the
\* sibling on the right.
C2_Witness ==
    /\ leaf_count = 3
    /\ lastOp.op = "rollback_to_timestamp" /\ lastOp.ok
    /\ generate_proof(Self, 2).val.path[1] = Right(node_hash(nodes[3]))
    /\ verify_proof(Self, generate_proof(Self, 2).val) = Ok(TRUE)

\* C3: an insert call that returns an error leaves the whole tree state as it
\* was: nodes, leaf_count, sparse index, delta log, delta index and
\* configuration.
C3_FailedInsertChangesNothing ==
    [][(lastOp'.op = "insert" /\ ~lastOp'.ok) => UNCHANGED tree_vars]_vars

\* C3 witness: a failed insert on a tree that holds leaves and deltas.
C3_Witness ==
    /\ lastOp.op = "insert" /\ ~lastOp.ok
    /\ leaf_count >= 2
    /\ stored_deltas # <<>>

\* ------------------------------------------------------------------- C4
\* Payloads on both sides of the size limit, and <<data, timestamp, clock>>
\* calls on both sides of every limit of insert.
DataMax == << <<0, MAX_DATA_SIZE>> >>
DataOverByOne == << <<0, MAX_DATA_SIZE + 1>> >>
BoundaryCalls ==
    InsertInputs
    \cup { <<DataMax, 1, ClockZero>>, <<DataOverByOne, 1, ClockZero>>,
           <<DataEmpty, FarFuture, ClockZero>>,
           <<DataOverByOne, 1, ClockLate>>,
           <<DataA, 0, ClockZero>>,
           <<DataA, ONE_YEAR, ClockZero>>,
           <<DataB, ONE_YEAR + 1, <<0, 1>> >>,
           <<DataB, ONE_YEAR + 2, <<0, 1>> >>,
           <<DataA, 0, <<100, 0>> >>, <<DataA, 0, <<100, 1>> >>,
           <<DataB, 2 * ONE_YEAR, <<1, 0>> >>,
           <<DataB, 2 * ONE_YEAR + 1, <<1, 0>> >> }

\* The failure conditions as the claim words them; the clock is
\* <<years, seconds>> with a year of 365 days.
DataRejected(d) == data_len(d) = 0 \/ data_len(d) > 1024 * 1024
TagRejected(t, now) ==
    LET ty == t \div (365 * 24 * 60 * 60)
        ts == t % (365 * 24 * 60 * 60)
    IN \/ ty > now[1] + 1
       \/ ty = now[1] + 1 /\ ts > now[2]
       \/ now[1] >= 100 /\ (ty < now[1] - 100 \/ (ty = now[1] - 100 /\ ts < now[2]))

\* C4: insert fails with InvalidConfiguration{parameter = "data"} iff the
\* payload is empty or longer than 1 MiB, whatever the timestamp is; otherwise
\* it fails with InvalidTimestamp iff the timestamp is more than a year after
\* the clock or before max(0, clock - 100 years); in every other case it
\* returns Ok, leaf_count grows by exactly one and the new leaf is the one at
\* index leaf_count - 1, behind the leaves that were there.
C4_InsertFailsExactlyOnBadInput ==
    \A in \in BoundaryCalls :
        LET r == insert(Self, in[1], in[2], in[3]) IN
        IF DataRejected(in[1])
        THEN r.result = Err([type |-> "InvalidConfiguration", parameter |-> "data"])
        ELSE IF TagRejected(in[2], in[3])
        THEN r.result.kind = "Err" /\ r.result.err.type = "InvalidTimestamp"
        ELSE /\ r.result.kind = "Ok"
             /\ r.self.leaf_count = leaf_count + 1
             /\ SubSeq(r.self.nodes, 1, leaf_count) = SubSeq(nodes, 1, leaf_count)
             /\ LET new == At(r.self.nodes, r.self.leaf_count - 1) IN
                /\ is_leaf(new)
                /\ new.timestamp = in[2]
                /\ new.data = Some(in[1])

\* ------------------------------------------------------------------- C5
\* The delta log after a call of insert, given what the log should gain.
LogGains(r, in) ==
    /\ Len(r.self.stored_deltas) = Len(stored_deltas) + 1
    /\ SubSeq(r.self.stored_deltas, 1, Len(stored_deltas)) = stored_deltas
    /\ LET d == r.self.stored_deltas[Len(r.self.stored_deltas)] IN
       /\ d.type = "Delta"
       /\ d.base_hash = root(Self)[1]
       /\ d.delta_hash = hash_pair(root(Self)[1], root(r.self)[1])
       /\ d.timestamp = in[2]

\* C5 as stated: with enable_deltas, every successful insert into a
\* non-empty tree appends exactly one delta (old root, hash_pair(old root,
\* new root), the insert's tag); the first insert appends none; without
\* enable_deltas the log never grows.
C5_DeltaPerInsert ==
    \A in \in InsertInputs :
        LET r == insert(Self, in[1], in[2], in[3]) IN
        r.result.kind = "Ok" =>
            IF config.enable_deltas /\ leaf_count > 0
            THEN LogGains(r, in)
            ELSE r.self.stored_deltas = stored_deltas

\* C5, amended: with enable_deltas, a successful insert into a non-empty
\* tree appends exactly one delta (old root, hash_pair(old root, new root),
\* the insert's tag) when it changes the root, and none when it leaves the
\* root as it was; the first insert appends none; without enable_deltas the
\* log never grows.
C5_DeltaPerRootChange ==
    \A in \in InsertInputs :
        LET r == insert(Self, in[1], in[2], in[3]) IN
        r.result.kind = "Ok" =>
            IF config.enable_deltas /\ leaf_count > 0 /\ root(r.self) # root(Self)
            THEN LogGains(r, in)
            ELSE r.self.stored_deltas = stored_deltas

\* C5 witness: the fourth insert repeated the payload of the unpaired third
\* leaf, the root stayed, and the log of the deltas-enabled tree holds the
\* two deltas of the second and third insert only.
C5_Witness ==
    /\ lastOp.op = "insert" /\ lastOp.ok
    /\ config.enable_deltas
    /\ leaf_count = 4 /\ Len(hist) = 4
    /\ hist[3] = hist[4]
    /\ Len(stored_deltas) = 2
    /\ stored_deltas[2].delta_hash = hash_pair(hist[2], hist[3])

\* ------------------------------------------------------------ C6 .. C10
\* The leaf vector of a tree, the leaves a rollback to target retains, and
\* the fresh tree of a configuration into which a sequence of leaves is
\* inserted in order.
Leaves(self) == SubSeq(self.nodes, 1, self.leaf_count)
Retained(ls, target) == SelectSeq(ls, LAMBDA n : n.timestamp <= target)
RECURSIVE insert_all(_, _, _)
insert_all(self, ls, i) ==
    IF i > Len(ls) THEN self
    ELSE insert_all(insert(self, ls[i].data[1], ls[i].timestamp, ClockZero).self,
                    ls, i + 1)
FreshTree(cfg, ls) == insert_all(with_config(cfg).val, ls, 1)
RollbackTargets == 0..(MaxTag + 1)

\* C6: whenever rollback_to_timestamp(target) succeeds, the leaf vector is
\* the previous leaves with tag <= target in their order, and the root and the
\* whole node vector (leaves and every derived layer) are those of a fresh
\* tree into which the retained leaves are inserted in that order.
C6_RollbackMatchesFreshLayers ==
    \A target \in RollbackTargets :
        LET r == rollback_to_timestamp(Self, target)
            retained == Retained(Leaves(Self), target)
            fresh == FreshTree(config, retained)
        IN r.result.kind = "Ok" =>
              /\ Leaves(r.self) = retained
              /\ root(r.self) = root(fresh)
              /\ r.self.nodes = fresh.nodes

\* C7: if the leaves were inserted with strictly increasing tags and hist
\* holds the roots observed after each of these inserts, then for every i
\* rollback_to_timestamp(t_i) succeeds and leaves leaf_count = i and
\* root() = hist[i].
C7_RollbackRestoresObservedRoot ==
    (/\ Len(hist) = leaf_count
     /\ \A i \in 1..(leaf_count - 1) : nodes[i].timestamp < nodes[i + 1].timestamp)
    => \A i \in 1..leaf_count :
          LET r == rollback_to_timestamp(Self, nodes[i].timestamp) IN
          /\ r.result.kind = "Ok"
          /\ r.self.leaf_count = i
          /\ root(r.self) = Some(hist[i])

\* C7 witness: three leaves were inserted with tags 1 < 2 < 3, a rollback to
\* tag 1 followed, and the root is the one observed after the first insert.
C7_Witness ==
    /\ lastOp = [op |-> "rollback_to_timestamp", arg |-> 1, ok |-> TRUE]
    /\ Len(hist) = 3 /\ hist[1] # hist[2] /\ hist[2] # hist[3]
    /\ leaf_count = 1 /\ nodes[1].timestamp = 1
    /\ root(Self) = Some(hist[1])

\* C8: on an empty tree, and on a tree none of whose leaves has a tag <=
\* target, rollback_to_timestamp(target) returns
\* Err(InvalidTimestamp{target}) and leaves the leaves, the root, the sparse
\* index and the delta log as they were.
C8_RollbackRejectsEmptyRetention ==
    \A target \in RollbackTargets :
        (leaf_count = 0 \/ \A i \in 1..leaf_count : nodes[i].timestamp > target)
        => LET r == rollback_to_timestamp(Self, target) IN
           /\ r.result = Err([type |-> "InvalidTimestamp", timestamp |-> target])
           /\ Leaves(r.self) = Leaves(Self)
           /\ r.self.leaf_count = leaf_count
           /\ root(r.self) = root(Self)
           /\ r.self.sparse_index = sparse_index
           /\ r.self.stored_deltas = stored_deltas

MaxLeafTag == CHOOSE m \in {nodes[i].timestamp : i \in 1..leaf_count} :
                 \A i \in 1..leaf_count : nodes[i].timestamp <= m

\* C9: in every state reachable by insert, rollback_to_timestamp and
\* prune_deltas that holds a leaf, rollback_to_timestamp(m) with m the
\* largest leaf tag returns Ok and changes nothing: nodes, leaf_count,
\* sparse index, delta log, delta index and configuration stay as they are.
C9_RollbackToMaxTagIsNoOp ==
    leaf_count > 0 =>
        rollback_to_timestamp(Self, MaxLeafTag) = [self |-> Self, result |-> Ok(<<>>)]

\* C9 witness: three inserts were followed by a rollback to the largest tag,
\* which removed none of them; the delta log is not empty and the largest
\* tag is not the last leaf's.
C9_Witness ==
    /\ lastOp.op = "rollback_to_timestamp" /\ lastOp.ok
    /\ leaf_count = 3 /\ Len(hist) = 3
    /\ lastOp.arg = MaxLeafTag
    /\ nodes[3].timestamp < MaxLeafTag
    /\ stored_deltas # <<>>

\* C10: on a deltas-enabled tree on which prune_deltas was never called,
\* whenever rollback_to_timestamp(target) succeeds the complete state
\* (nodes, leaf_count, sparse index, delta log, delta index) is that of a
\* fresh tree of the same configuration into which the retained leaves are
\* inserted in their original order, whatever the order of the tags.
C10_RollbackEqualsFreshTree ==
    config.enable_deltas =>
        \A target \in RollbackTargets :
            LET r == rollback_to_timestamp(Self, target) IN
            r.result.kind = "Ok" =>
                r.self = FreshTree(config, Retained(Leaves(Self), target))

\* ------------------------------------------------------------------ C11
\* C11: whenever rollback_to_timestamp succeeds, the new leaf vector is a
\* prefix of the leaf vector before the call, so that every retained leaf
\* keeps its index; and a successful insert leaves every existing leaf as it
\* was, at its index.
C11_RollbackTrimsTailOnly ==
    /\ \A target \in RollbackTargets :
          LET r == rollback_to_timestamp(Self, target) IN
          r.result.kind = "Ok" =>
              /\ r.self.leaf_count <= leaf_count
              /\ Leaves(r.self) = SubSeq(Leaves(Self), 1, r.self.leaf_count)
    /\ \A in \in InsertInputs :
          LET r == insert(Self, in[1], in[2], in[3]) IN
          r.result.kind = "Ok" =>
              SubSeq(r.self.nodes, 1, leaf_count) = Leaves(Self)

\* ------------------------------------------------------------------ C12
\* The pairs the sparse index holds, and the pairs the claim expects: for
\* every tag t of a current leaf with t mod s = 0, the largest index of a
\* leaf with that tag.
IndexPairs(si) == {<<t, si.index[t]>> : t \in DOMAIN si.index}
ExpectedPairs ==
    {<<nodes[i].timestamp, i - 1>> :
        i \in {j \in 1..leaf_count :
                  /\ nodes[j].timestamp % config.sparse_index_sparsity = 0
                  /\ \A k \in (j + 1)..leaf_count :
                        nodes[k].timestamp # nodes[j].timestamp}}

\* C12: after any sequence of insert and rollback_to_timestamp calls the
\* sparse index holds exactly the pairs (t, k) with t mod s = 0, t the tag of
\* a current leaf and k the largest current leaf index with tag t.
C12_SparseIndexExact ==
    /\ sparse_index.sparsity = config.sparse_index_sparsity
    /\ IndexPairs(sparse_index) = ExpectedPairs

\* C12 witness: sparsity 2, a rollback to tag 2 removed a leaf with tag 3
\* from the middle; two leaves with tag 2 remain behind a leaf with tag 1,
\* and the index holds the single pair (2, 2).
C12_Witness ==
    /\ lastOp = [op |-> "rollback_to_timestamp", arg |-> 2, ok |-> TRUE]
    /\ config.sparse_index_sparsity = 2
    /\ hist = <<>>
    /\ leaf_count = 3
    /\ nodes[1].timestamp = 1 /\ nodes[2].timestamp = 2 /\ nodes[3].timestamp = 2
    /\ IndexPairs(sparse_index) = {<<2, 2>>}

\* ------------------------------------------------------------ C13, C14
\* A sequence of indices is in strictly ascending order; the set of its
\* elements; the tags asked for, one of them beyond every leaf tag.
Ascending(v) == \A i \in 1..(Len(v) - 1) : v[i] < v[i + 1]
Elements(v) == {v[i] : i \in 1..Len(v)}
QueryTags == 0..(MaxTag + 1)

\* C13: for every tag t, find_by_timestamp(t) lists in ascending order
\* exactly the indices k < leaf_count whose leaf has tag t, whatever the
\* sparsity is, duplicates included.
C13_FindByTimestampExact ==
    \A t \in QueryTags :
        LET found == find_by_timestamp(Self, t) IN
        /\ Ascending(found)
        /\ Elements(found) = {k \in 0..(leaf_count - 1) : At(nodes, k).timestamp = t}

\* C13 witness: sparsity 2 and two leaves with tag 1, which the sparse index
\* does not admit, around a leaf with tag 2; both are found.
C13_Witness ==
    /\ config.sparse_index_sparsity = 2
    /\ leaf_count = 3
    /\ find_exact(sparse_index, 1) = None
    /\ find_by_timestamp(Self, 1) = <<0, 2>>
    /\ find_by_timestamp(Self, 2) = <<1>>

\* C14: find_range(lo, hi) lists in ascending order exactly the leaf indices
\* k with lo <= tag(k) <= hi, whatever the sparsity is; it is empty on an
\* empty tree and when lo > hi; and a range contained in another finds a
\* subset of what the other finds.
C14_FindRangeExact ==
    LET found == [q \in QueryTags \X QueryTags |-> find_range(Self, q[1], q[2])] IN
    /\ \A q \in QueryTags \X QueryTags :
          /\ Ascending(found[q])
          /\ Elements(found[q]) =
                {k \in 0..(leaf_count - 1) :
                    q[1] <= At(nodes, k).timestamp /\ At(nodes, k).timestamp <= q[2]}
          /\ (leaf_count = 0 \/ q[1] > q[2]) => found[q] = <<>>
    /\ \A q \in QueryTags \X QueryTags, w \in QueryTags \X QueryTags :
          (w[1] <= q[1] /\ q[2] <= w[2]) => Elements(found[q]) \subseteq Elements(found[w])

\* C14 witness: sparsity 2, three leaves with tags 3, 1, 3 out of tag order;
\* the range [3, 3] finds the first and the last, a wider range finds all
\* three, and an inverted range finds none.
C14_Witness ==
    /\ config.sparse_index_sparsity = 2
    /\ leaf_count = 3
    /\ find_range(Self, 3, 3) = <<0, 2>>
    /\ find_range(Self, 1, 3) = <<0, 1, 2>>
    /\ find_range(Self, 3, 1) = <<>>

\* ------------------------------------------------------------ C15, C16
\* Proofs presented to verify_proof.  JunkHash is a digest of no node.  For a
\* leaf index k in range: the paths are the empty one, the generated one, a
\* single Delta step from the leaf hash to the root, a Delta step that
\* changes nothing and a wrong sibling; the delta chains are absent, empty,
\* the companion of the Delta step and a wrong one.
JunkHash == hash(<< <<255, 1>> >>)
LeafHashAt(k) == node_hash(At(nodes, k))
ProbePaths(k) ==
    { <<>>, generate_proof(Self, k).val.path,
      <<Delta(LeafHashAt(k), root(Self)[1])>>,
      <<Delta(LeafHashAt(k), LeafHashAt(k))>>,
      <<Left(JunkHash)>> }
ProbeChains(k) ==
    { None, Some(<<>>), Some(<<hash_pair(LeafHashAt(k), root(Self)[1])>>),
      Some(<<JunkHash>>) }
ProbeResults == { <<>>, <<TRUE>>, <<TRUE, FALSE>> }
ProbeProofs(k, ts) ==
    { [leaf_index |-> k, path |-> p, delta_chain |-> c,
       programmable_results |-> pr, timestamp |-> ts] :
         p \in ProbePaths(k), c \in ProbeChains(k), pr \in ProbeResults }
\* Proofs for a leaf index that may be out of range.
PlainProofs(k, ts) ==
    { [leaf_index |-> k, path |-> p, delta_chain |-> c,
       programmable_results |-> pr, timestamp |-> ts] :
         p \in { <<>>, <<Right(JunkHash)>>, <<Delta(JunkHash, JunkHash)>> },
         c \in { None, Some(<<JunkHash>>) },
         pr \in ProbeResults }

\* C15: on a non-empty tree, verify_proof of a proof whose leaf_index is in
\* range and whose declared timestamp is not the tag of that leaf returns
\* Ok(false), whatever its path, delta chain and programmable results are.
C15_TimestampMismatchIsFalse ==
    \A k \in 0..(leaf_count - 1) :
        \A ts \in QueryTags \ {At(nodes, k).timestamp} :
            \A proof \in ProbeProofs(k, ts) :
                verify_proof(Self, proof) = Ok(FALSE)

\* C15 witness: three leaves; the generated proof of the last one verifies,
\* the same proof with another declared timestamp does not, and neither
\* does one whose path would raise an error.
C15_Witness ==
    /\ leaf_count = 3
    /\ LET proof == generate_proof(Self, 2).val IN
       /\ verify_proof(Self, proof) = Ok(TRUE)
       /\ verify_proof(Self, [proof EXCEPT !.timestamp = 0]) = Ok(FALSE)
       /\ verify_proof(Self, [proof EXCEPT
                                !.path = <<Delta(JunkHash, JunkHash)>>]).kind = "Err"
       /\ verify_proof(Self, [proof EXCEPT
                                !.path = <<Delta(JunkHash, JunkHash)>>,
                                !.timestamp = 0]) = Ok(FALSE)

\* C16: generate_proof(k) returns Err(IndexOutOfBounds{k, leaf_count}) iff
\* k >= leaf_count; verify_proof returns Err(EmptyTree) on an empty tree for
\* any proof and Err(IndexOutOfBounds) on a non-empty tree for a proof whose
\* leaf_index is >= leaf_count.
C16_ProofErrors ==
    /\ \A k \in 0..(MaxInsertOnly + 1) :
          IF k >= leaf_count
          THEN generate_proof(Self, k) =
                   Err([type |-> "IndexOutOfBounds", index |-> k,
                        leaf_count |-> leaf_count])
          ELSE generate_proof(Self, k).kind = "Ok"
    /\ \A k \in 0..(MaxInsertOnly + 1), ts \in QueryTags :
          \A proof \in PlainProofs(k, ts) :
              LET r == verify_proof(Self, proof) IN
              /\ leaf_count = 0 => r = Err([type |-> "EmptyTree"])
              /\ (leaf_count > 0 /\ k >= leaf_count) =>
                     (r.kind = "Err" /\ r.err.type = "IndexOutOfBounds")

\* C16 witness: two leaves and their parent; index 2, where the parent is
\* stored, has no proof and proofs naming it are refused.
C16_Witness ==
    /\ leaf_count = 2 /\ Len(nodes) = 3
    /\ ~is_leaf(At(nodes, 2))
    /\ generate_proof(Self, 2).kind = "Err"
    /\ generate_proof(Self, 1).kind = "Ok"
    /\ verify_proof(Self, ChronoProof_new(2, 1)).err.type = "IndexOutOfBounds"

\* ------------------------------------------------------------------ C17
\* The walk over a path as the claim words it: a Left or Right step pairs
\* the running hash with the sibling; the k-th Delta(old, new) step fails
\* unless the running hash is old, old differs from new, the chain is
\* present, has a k-th entry and that entry is hash_pair(old, new), and then
\* makes new the running hash.  The result is "failed" or the final hash.
RECURSIVE ClaimWalk(_, _, _, _, _)
ClaimWalk(path, chain, i, running, k) ==
    IF i > Len(path) THEN <<running, k>>
    ELSE IF path[i].side = "Left"
    THEN ClaimWalk(path, chain, i + 1, hash_pair(path[i].sibling, running), k)
    ELSE IF path[i].side = "Right"
    THEN ClaimWalk(path, chain, i + 1, hash_pair(running, path[i].sibling), k)
    ELSE IF \/ running # path[i].old_hash
            \/ path[i].old_hash = path[i].new_hash
            \/ chain = None
    THEN "failed"
    ELSE IF k > Len(chain[1]) THEN "failed"
    ELSE IF chain[1][k] # hash_pair(path[i].old_hash, path[i].new_hash)
    THEN "failed"
    ELSE ClaimWalk(path, chain, i + 1, path[i].new_hash, k + 1)

\* Paths with Delta steps that start at the hash of the first leaf: the
\* generated path followed by one or two Delta steps, a Delta step in front
\* of a sibling step, a Delta step from the wrong hash and one that changes
\* nothing; and the chains that go with them, right, reordered, short, wrong
\* and absent.
DeltaPaths ==
    LET h == LeafHashAt(0)
        r == root(Self)[1]
        gen == generate_proof(Self, 0).val.path
    IN { gen \o <<Delta(r, JunkHash)>>,
         gen \o <<Delta(r, JunkHash), Delta(JunkHash, h)>>,
         gen \o <<Delta(r, JunkHash), Delta(JunkHash, JunkHash)>>,
         gen \o <<Delta(r, JunkHash), Delta(r, h)>>,
         <<Delta(h, JunkHash), Left(r), Delta(hash_pair(r, JunkHash), r)>>,
         <<Delta(JunkHash, h)>>,
         <<Delta(h, h)>> }
DeltaChains ==
    LET h == LeafHashAt(0)
        r == root(Self)[1]
        c1 == hash_pair(r, JunkHash)
        c2 == hash_pair(JunkHash, h)
        c3 == hash_pair(h, JunkHash)
        c4 == hash_pair(hash_pair(r, JunkHash), r)
    IN { None, Some(<<>>), Some(<<c1>>), Some(<<c1, c2>>), Some(<<c2, c1>>),
         Some(<<c1, c1>>), Some(<<c1, c2, c2>>), Some(<<c3, c4>>), Some(<<c3>>),
         Some(<<JunkHash>>), Some(<<hash_pair(h, h)>>) }

\* C17: proof::verify_proof returns Err(ProofVerificationFailed) exactly
\* when the walk of the claim fails at a Delta step, and otherwise (no
\* programmable result being false) compares the hash the walk ends with
\* against the root, having consumed one chain entry per Delta step.
C17_DeltaStepRules ==
    leaf_count > 0 =>
        \A path \in DeltaPaths, chain \in DeltaChains, root_hash \in {root(Self)[1], LeafHashAt(0)} :
            LET proof == [leaf_index |-> 0, path |-> path, delta_chain |-> chain,
                          programmable_results |-> <<>>,
                          timestamp |-> At(nodes, 0).timestamp]
                expected == ClaimWalk(path, chain, 1, LeafHashAt(0), 1)
                walked == verify_path(proof, 1, LeafHashAt(0), 0)
                got == proof_verify_proof(proof, LeafHashAt(0), root_hash)
            IN IF expected = "failed"
               THEN got = Err([type |-> "ProofVerificationFailed"])
               ELSE /\ got = Ok(expected[1] = root_hash)
                    /\ walked.val.current_hash = expected[1]
                    /\ walked.val.delta_index = expected[2] - 1
                    /\ walked.val.delta_index =
                          Cardinality({i \in 1..Len(path) : path[i].side = "Delta"})

\* C17 witness: on a three-leaf tree, a path with two Delta steps is walked
\* to its end with the two companions in step order, and fails with the
\* companions swapped, with the first companion twice and with one only.
C17_Witness ==
    /\ leaf_count = 3
    /\ LET h == LeafHashAt(0)
           r == root(Self)[1]
           c1 == hash_pair(r, JunkHash)
           c2 == hash_pair(JunkHash, h)
           proof == [generate_proof(Self, 0).val EXCEPT
                       !.path = @ \o <<Delta(r, JunkHash), Delta(JunkHash, h)>>]
       IN /\ proof_verify_proof([proof EXCEPT !.delta_chain = Some(<<c1, c2>>)], h, h)
                = Ok(TRUE)
          /\ proof_verify_proof([proof EXCEPT !.delta_chain = Some(<<c2, c1>>)], h, h)
                = ProofFailed
          /\ proof_verify_proof([proof EXCEPT !.delta_chain = Some(<<c1, c1>>)], h, h)
                = ProofFailed
          /\ proof_verify_proof([proof EXCEPT !.delta_chain = Some(<<c1>>)], h, h)
                = ProofFailed

\* ------------------------------------------------------------------ C18
\* The fold of a path of Left and Right steps over a leaf hash, as the claim
\* words it.
RECURSIVE ClaimFold(_, _, _)
ClaimFold(path, i, current) ==
    IF i > Len(path) THEN current
    ELSE IF path[i].side = "Left"
    THEN ClaimFold(path, i + 1, hash_pair(path[i].sibling, current))
    ELSE ClaimFold(path, i + 1, hash_pair(current, path[i].sibling))

\* A digest with the byte at one position changed.
Flip(h, pos) == [h EXCEPT ![pos] = IF @ = 7 THEN 8 ELSE 7]
FlippedRoots == {Flip(root(Self)[1], pos) : pos \in 1..Len(root(Self)[1])}

\* Paths of sibling steps only, for the leaf at index k: the generated one,
\* the generated one cut short, extended, with its first sibling replaced,
\* and with its first step turned to the other side.
SiblingPaths(k) ==
    LET gen == generate_proof(Self, k).val.path IN
    { gen, SubSeq(gen, 1, Len(gen) - 1), gen \o <<Right(JunkHash)>>,
      <<Left(JunkHash)>> \o Tail(gen \o <<Left(JunkHash)>>),
      IF gen = <<>> THEN <<>>
      ELSE <<IF gen[1].side = "Left" THEN Right(gen[1].sibling)
             ELSE Left(gen[1].sibling)>> \o Tail(gen) }

\* C18: for a proof whose path has only Left and Right steps and whose
\* programmable results are all true, proof::verify_proof returns Ok(true)
\* when the fold of the path over the leaf hash is the supplied root and
\* Ok(false) when it is not, never an error; for the generated path it
\* returns Ok(true) for the root and Ok(false) for the root with any one
\* byte changed.
C18_SiblingPathNeverErrs ==
    \A k \in 0..(leaf_count - 1) :
        \A path \in SiblingPaths(k), pr \in { <<>>, <<TRUE, TRUE>> } :
            LET proof == [leaf_index |-> k, path |-> path, delta_chain |-> None,
                          programmable_results |-> pr,
                          timestamp |-> At(nodes, k).timestamp]
                folded == ClaimFold(path, 1, LeafHashAt(k))
            IN /\ \A root_hash \in {root(Self)[1], folded, Flip(folded, 1)} :
                      proof_verify_proof(proof, LeafHashAt(k), root_hash)
                          = Ok(folded = root_hash)
               /\ path = generate_proof(Self, k).val.path =>
                      /\ proof_verify_proof(proof, LeafHashAt(k), root(Self)[1]) = Ok(TRUE)
                      /\ \A root_hash \in FlippedRoots :
                            proof_verify_proof(proof, LeafHashAt(k), root_hash) = Ok(FALSE)

\* C18 witness: on a four-leaf tree the generated proof of the last leaf is
\* accepted for the root and rejected, without an error, for the root with
\* its first or its last byte changed and for a path cut short.
C18_Witness ==
    /\ leaf_count = 4
    /\ LET proof == generate_proof(Self, 3).val
           h == LeafHashAt(3)
           r == root(Self)[1]
       IN /\ Len(proof.path) = 2
          /\ proof_verify_proof(proof, h, r) = Ok(TRUE)
          /\ proof_verify_proof(proof, h, Flip(r, 1)) = Ok(FALSE)
          /\ proof_verify_proof(proof, h, Flip(r, Len(r))) = Ok(FALSE)
          /\ proof_verify_proof([proof EXCEPT !.path = <<@[1]>>], h, r) = Ok(FALSE)

\* ------------------------------------------------------------------ C19
\* C19: tree.verify_proof never returns Ok(true) for a proof whose path
\* contains a Delta step, whatever delta chain comes with it.
C19_DeltaStepNeverAccepted ==
    \A k \in 0..(leaf_count - 1) :
        \A proof \in ProbeProofs(k, At(nodes, k).timestamp) :
            (\E i \in 1..Len(proof.path) : proof.path[i].side = "Delta")
            => verify_proof(Self, proof) # Ok(TRUE)

\* ------------------------------------------------------------------ C20
\* C20: leaf_count never exceeds 2^max_depth, and an insert that would make
\* it do so returns an error and leaves the tree as it was.
C20_LeafCountWithinDepth ==
    /\ leaf_count <= 2 ^ config.max_depth
    /\ leaf_count + 1 > 2 ^ config.max_depth =>
          \A in \in InsertInputs :
              LET r == insert(Self, in[1], in[2], in[3]) IN
              r.result.kind = "Err" /\ r.self = Self

\* ------------------------------------------------------------------ C21
\* The positions (from 1) of the records of the delta log whose tag is at
\* least t.
AtLeast(deltas, t) == {i \in 1..Len(deltas) : deltas[i].timestamp >= t}
\* The suffix of the delta log that starts at its first record with tag >= t.
SuffixFrom(deltas, t) ==
    IF AtLeast(deltas, t) = {} THEN <<>>
    ELSE LET first == CHOOSE i \in AtLeast(deltas, t) :
                          \A j \in AtLeast(deltas, t) : i <= j
         IN SubSeq(deltas, first, Len(deltas))

\* C21: get_delta_chain(t) is the suffix of the delta log that starts at the
\* first delta whose tag is >= t, for every t and every sparsity, and is
\* empty only when no retained delta has a tag >= t.
C21_DeltaChainIsSuffixFromTag ==
    \A t \in QueryTags :
        /\ get_delta_chain(Self, t) = SuffixFrom(stored_deltas, t)
        /\ get_delta_chain(Self, t) = <<>> <=> AtLeast(stored_deltas, t) = {}

\* ------------------------------------------------------------------ C22
\* The last record of a delta log.
LastDelta(self) == self.stored_deltas[Len(self.stored_deltas)]
\* The successful inserts into the current tree, as records of the call's
\* outcome, the root before and the root after.
NextInserts ==
    {[r |-> insert(Self, in[1], in[2], in[3]), in |-> in] : in \in InsertInputs}
OneMoreInsert ==
    {[after |-> x.r.self, R0 |-> root(Self)[1], R1 |-> root(x.r.self)[1]] :
        x \in {y \in NextInserts : y.r.result.kind = "Ok" /\ leaf_count >= 1}}

\* C22 as stated: after one further successful insert into a deltas-enabled
\* tree with at least one leaf, the last delta record has old_root = R0 and
\* delta_digest = hash_pair(R0, R1), and verify_delta(R0, R1, [that record])
\* is Ok(true).
C22_LastDeltaBindsRoots ==
    config.enable_deltas =>
        \A o \in OneMoreInsert :
            /\ o.after.stored_deltas # <<>>
            /\ LastDelta(o.after).base_hash = o.R0
            /\ LastDelta(o.after).delta_hash = hash_pair(o.R0, o.R1)
            /\ verify_delta(o.R0, o.R1, <<LastDelta(o.after)>>) = Ok(TRUE)

\* C22 amended: the same, for an insert that changes the root; an insert that
\* leaves the root unchanged leaves the delta log unchanged.
C22_LastDeltaBindsChangedRoots ==
    config.enable_deltas =>
        \A o \in OneMoreInsert :
            IF o.R1 # o.R0
            THEN /\ Len(o.after.stored_deltas) = Len(stored_deltas) + 1
                 /\ LastDelta(o.after).base_hash = o.R0
                 /\ LastDelta(o.after).delta_hash = hash_pair(o.R0, o.R1)
                 /\ verify_delta(o.R0, o.R1, <<LastDelta(o.after)>>) = Ok(TRUE)
                 /\ verify_delta(o.R1, o.R0, <<LastDelta(o.after)>>) = Ok(FALSE)
            ELSE o.after.stored_deltas = stored_deltas

\* Four leaves and a pruned log; one more insert changes the root and its
\* record verifies.
C22_Witness ==
    /\ config.enable_deltas /\ leaf_count = 3 /\ stored_deltas = <<>>
    /\ \E o \in OneMoreInsert :
          /\ o.R1 # o.R0
          /\ o.after.stored_deltas = <<delta(hash_pair(o.R0, o.R1), o.R0, 3)>>
          /\ verify_delta(o.R0, o.R1, o.after.stored_deltas) = Ok(TRUE)
    /\ \E o \in OneMoreInsert : o.R1 = o.R0

\* ------------------------------------------------------------------ C23
\* C23: with deltas enabled, sparsity 1 and pairwise distinct tags, for the
\* insert with tag t, R_old the root right before it and R_new the current
\* root, verify_delta(R_old, R_new, get_delta_chain(t)) is Ok(true), also
\* when the chain holds more than one delta.
DistinctTags ==
    \A i, j \in 1..leaf_count : i # j => nodes[i].timestamp # nodes[j].timestamp
C23_ChainReplaysToCurrentRoot ==
    (config.enable_deltas /\ config.sparse_index_sparsity = 1
     /\ DistinctTags /\ Len(hist) = leaf_count)
    => \A k \in 2..leaf_count :
          verify_delta(hist[k - 1], root(Self)[1],
                       get_delta_chain(Self, nodes[k].timestamp)) = Ok(TRUE)

\* ------------------------------------------------------------------ C24
\* The position in deltas of the j-th record (from 1) with tag >= t.
KeptPosition(deltas, t, j) ==
    CHOOSE i \in AtLeast(deltas, t) :
        Cardinality({k \in AtLeast(deltas, t) : k <= i}) = j

\* C24: prune_deltas(t) removes exactly the delta records with tag < t and
\* keeps the others in their order; afterwards every tag of the delta index
\* maps to a valid position of a record with that tag (the last such record,
\* and every admitted tag is indexed); leaves, derived nodes, root, sparse
\* index and configuration are unchanged.
C24_PruneDeltasExact ==
    \A t \in PruneTargets \cup {0} :
        LET p == prune_deltas(Self, t)
            kept == p.stored_deltas
            idx == p.delta_chains.index
        IN /\ Len(kept) = Cardinality(AtLeast(stored_deltas, t))
           /\ \A j \in 1..Len(kept) :
                 kept[j] = stored_deltas[KeptPosition(stored_deltas, t, j)]
           /\ p.delta_chains.sparsity = config.sparse_index_sparsity
           /\ \A tag \in DOMAIN idx :
                 /\ idx[tag] \in 0..(Len(kept) - 1)
                 /\ At(kept, idx[tag]).timestamp = tag
                 /\ \A j \in 1..Len(kept) : kept[j].timestamp = tag => j - 1 <= idx[tag]
           /\ \A j \in 1..Len(kept) :
                 kept[j].timestamp % config.sparse_index_sparsity = 0
                 => kept[j].timestamp \in DOMAIN idx
           /\ p.nodes = nodes /\ p.leaf_count = leaf_count
           /\ root(p) = root(Self)
           /\ p.sparse_index = sparse_index
           /\ p.config = config /\ p.incremental_updates = incremental_updates

\* prune_deltas(2) has just run on a three-leaf tree whose log held a delta
\* with tag 1 and one with tag 2: the second one is left, at position 0.
C24_Witness ==
    /\ lastOp = [op |-> "prune_deltas", arg |-> 2, ok |-> TRUE]
    /\ config.enable_deltas /\ config.sparse_index_sparsity = 1
    /\ leaf_count = 3 /\ Len(nodes) = 6
    /\ Len(stored_deltas) = 1 /\ stored_deltas[1].timestamp = 2
    /\ stored_deltas[1].base_hash = hist[2]
    /\ DOMAIN delta_chains.index = {2} /\ delta_chains.index[2] = 0
    /\ prune_deltas(Self, 3).stored_deltas = <<>>

\* ------------------------------------------------------------------ C25
\* The tree that received the inserts of the current leaves under
\* configuration cfg.
Twin(cfg) == FreshTree(cfg, Leaves(Self))
\* What a caller can observe of a tree besides its configuration.
Observable(self) ==
    [nodes |-> self.nodes, leaf_count |-> self.leaf_count,
     root |-> root(self), sparse_index |-> self.sparse_index,
     stored_deltas |-> self.stored_deltas, delta_chains |-> self.delta_chains,
     proofs |-> [k \in 0..(self.leaf_count - 1) |-> generate_proof(self, k)]]

\* The node vector the sequential build makes of the current leaves.
SequentialNodes ==
    rebuild_tree([Self EXCEPT !.nodes = SubSeq(nodes, 1, leaf_count)]).nodes

\* C25: whatever the order in which the workers of a layer finish, every
\* parent a worker writes is the one the sequential build stores at that
\* position, the layers joined so far are those of the sequential build, and
\* after every insert the tree with parallel_construction = true has the
\* nodes, root, proofs, indexes and delta log of the tree that received the
\* same inserts with parallel_construction = false.
C25_ParallelEqualsSequential ==
    IF build.active
    THEN /\ nodes = SubSeq(SequentialNodes, 1, Len(nodes))
         /\ \A i \in DOMAIN build.slots :
               build.slots[i]
                 = SequentialNodes[build.current_start + build.current_count
                                     + i + 1]
    ELSE Observable(Self)
           = Observable(Twin([config EXCEPT !.parallel_construction = FALSE]))

\* C25 witness: an insert has returned whose parallel build had a worker
\* finish before a worker of a lower index, on a tree whose first derived
\* layer holds two different parents, the second of an unpaired leaf.
C25_Witness ==
    /\ ~build.active /\ build.out_of_order
    /\ config.parallel_construction
    /\ lastOp.op = "insert" /\ lastOp.ok
    /\ leaf_count = 3 /\ Len(nodes) = 6
    /\ nodes[4] # nodes[5]
    /\ nodes[5].left_hash = nodes[5].right_hash

\* ------------------------------------------------------------------ C26
\* C26: after every insert a tree with incremental_updates = true holds the
\* node sequence, root, sparse index and delta log (and delta index and
\* proofs) of the tree that received the same inserts with
\* incremental_updates = false.
C26_IncrementalEqualsRebuild ==
    Observable(Self)
      = Observable(Twin([config EXCEPT !.incremental_updates = ~@]))

\* A three-leaf tree updated by the incremental path, with its two deltas.
C26_Witness ==
    /\ incremental_updates /\ config.incremental_updates
    /\ leaf_count = 3 /\ Len(nodes) = 6 /\ Len(stored_deltas) = 2
    /\ lastOp = [op |-> "insert", arg |-> 2, ok |-> TRUE]
    /\ ~Twin([config EXCEPT !.incremental_updates = FALSE]).incremental_updates

\* ------------------------------------------------------------------ C27
\* The tree reconstructed from what extract_leaves_and_deltas returns for
\* the current tree, with the current configuration.
Reconstructed ==
    reconstruct_from_leaves_and_deltas(extract_leaves_and_deltas(Self)[1],
                                       extract_leaves_and_deltas(Self)[2],
                                       config, ClockZero)

\* C27: for every reachable tree, reconstruct_from_leaves_and_deltas of its
\* extracted leaves and deltas succeeds and yields the same leaf count, root,
\* sparse index and delta log, and get_delta_chain returns the same chain
\* for every tag.
C27_ReconstructRoundTrip ==
    /\ Reconstructed.kind = "Ok"
    /\ LET t == Reconstructed.val IN
       /\ t.leaf_count = leaf_count
       /\ root(t) = root(Self)
       /\ t.sparse_index = sparse_index
       /\ t.stored_deltas = stored_deltas
       /\ \A tag \in QueryTags :
             get_delta_chain(t, tag) = get_delta_chain(Self, tag)

\* ------------------------------------------------------------------ C28
\* The calls of insert with a valid payload and clock whose tag is the tag
\* of a leaf of the current tree.
DuplicateTagCalls ==
    {in \in {DataA, DataB} \X Timestamps \X {ClockZero} :
        \E i \in 1..leaf_count : nodes[i].timestamp = in[2]}

\* C28: an insert whose tag equals the tag of a leaf already in the tree
\* succeeds, keeps the old leaves and adds the new one, and hands an
\* InputValidationFailure (duplicate timestamp) event to the logger, for
\* every sparsity and whether or not the tag is admitted to the sparse index.
C28_DuplicateTagWarns ==
    \A in \in DuplicateTagCalls :
        LET r == insert(Self, in[1], in[2], in[3]) IN
        /\ r.result = Ok(<<>>)
        /\ Leaves(r.self) = Append(Leaves(Self), leaf(hash(in[1]), in[2], Some(in[1])))
        /\ \E i \in 1..Len(r.events) :
              r.events[i] = input_validation_failure("timestamp")

\* ------------------------------------------------------------------ C29
\* A result that rejects the proof: Ok(false), or an error of path checking.
Rejects(result) ==
    \/ result = Ok(FALSE)
    \/ /\ result.kind = "Err"
       /\ result.err.type \in {"ProofVerificationFailed", "ValidationFailed"}

\* C29: every verify_proof call on a non-empty tree with an in-range
\* leaf_index that rejects the proof, by Ok(false) or by an error of path
\* checking, hands a ProofVerificationFailure event to the logger.
C29_RejectionIsLogged ==
    \A k \in 0..(leaf_count - 1), ts \in QueryTags :
        \A proof \in ProbeProofs(k, ts) :
            LET v == verify_proof_logged(Self, proof) IN
            /\ v.result = verify_proof(Self, proof)
            /\ Rejects(v.result) =>
                  v.events = <<proof_verification_failure(k, ts)>>

\* ------------------------------------------------------------------ C30
\* The configurations the constructors are probed with.
ProbeConfigs ==
    [sparse_index_sparsity : 0..3, enable_deltas : BOOLEAN,
     incremental_updates : BOOLEAN, max_depth : {0, 1, 2, 32, 63, 64, 65, 66},
     parallel_construction : BOOLEAN]
\* What the claim says a constructor's result for configuration c is.
ConstructedAsClaimed(made, c) ==
    IF c.sparse_index_sparsity = 0 \/ c.max_depth = 0 \/ c.max_depth > 64
    THEN made.kind = "Err" /\ made.err.type = "InvalidConfiguration"
    ELSE /\ made.kind = "Ok"
         /\ made.val.nodes = <<>> /\ made.val.leaf_count = 0
         /\ root(made.val) = None
         /\ made.val.stored_deltas = <<>>
         /\ made.val.sparse_index = [index |-> EmptyMap,
                                     sparsity |-> c.sparse_index_sparsity]
         /\ made.val.delta_chains = [index |-> EmptyMap,
                                     sparsity |-> c.sparse_index_sparsity]
         /\ made.val.config = c

\* C30: with_config and with_config_and_logger return
\* Err(InvalidConfiguration) iff sparse_index_sparsity = 0 or max_depth = 0
\* or max_depth > 64, and otherwise an empty tree (no leaves, root None,
\* empty delta log) whose sparse index and delta index use the configured
\* sparsity; so every tree in use has a configuration inside the limits and
\* indexes of the configured sparsity.
C30_ConstructorsValidate ==
    /\ \A c \in ProbeConfigs :
          /\ ConstructedAsClaimed(with_config(c), c)
          /\ ConstructedAsClaimed(with_config_and_logger(c), c)
    /\ config.sparse_index_sparsity # 0 /\ config.max_depth \in 1..64
    /\ sparse_index.sparsity = config.sparse_index_sparsity
    /\ delta_chains.sparsity = config.sparse_index_sparsity
    /\ lastOp.op = "with_config" => ConstructedAsClaimed(Ok(Self), config)

\* The tree with_config returned for sparsity 3 and max_depth 64, the
\* largest depth accepted.
C30_Witness ==
    /\ lastOp.op = "with_config"
    /\ config.sparse_index_sparsity = 3 /\ config.max_depth = 64
    /\ leaf_count = 0 /\ root(Self) = None
    /\ sparse_index.sparsity = 3 /\ delta_chains.sparsity = 3
    /\ with_config([config EXCEPT !.max_depth = 65]).kind = "Err"
    /\ with_config([config EXCEPT !.sparse_index_sparsity = 0]).kind = "Err"

\* ------------------------------------------------------------------ C31
\* C31: on a deltas-enabled tree, in every state reached by insert,
\* rollback_to_timestamp and prune_deltas (tags in any order), the last
\* record of a non-empty delta log binds the current root:
\* last.delta_digest = hash_pair(last.old_root, root()).
C31_LastDeltaBindsCurrentRoot ==
    (config.enable_deltas /\ stored_deltas # <<>>)
    => /\ root(Self) # None
       /\ LastDelta(Self).delta_hash
             = hash_pair(LastDelta(Self).base_hash, root(Self)[1])

\* ------------------------------------------------------------------ C32
\* Delta nodes handed to apply_delta_rollback: the records of the log and
\* one that is not in it.
RollbackDeltas ==
    {stored_deltas[i] : i \in 1..Len(stored_deltas)}
      \cup {delta(JunkHash, JunkHash, 1)}
\* The hashes of the first k leaves.
FirstHashes(k) == [i \in 1..k |-> node_hash(nodes[i])]

\* C32: apply_delta_rollback with a Delta node on a tree with n >= 1 leaves
\* leaves n-1 leaves, the first n-1, with root the canonical combine of
\* their hashes, and the root after a following insert is the canonical
\* combine of those n-1 hashes and the new leaf's; with a node that is not a
\* Delta it returns Err(InvalidNodeType) and changes nothing.
C32_DeltaRollbackDropsLastLeaf ==
    leaf_count >= 1 =>
       /\ \A d \in RollbackDeltas :
             LET r == apply_delta_rollback(Self, d) IN
             /\ r.result = Ok(<<>>)
             /\ r.self.leaf_count = leaf_count - 1
             /\ root(r.self) = canonical_root(FirstHashes(leaf_count - 1))
             /\ \A in \in {DataA, DataB} \X Timestamps \X {ClockZero} :
                   root(insert(r.self, in[1], in[2], in[3]).self)
                     = canonical_root(Append(FirstHashes(leaf_count - 1),
                                             hash(in[1])))
       /\ \A i \in 1..Len(nodes) :
             LET r == apply_delta_rollback(Self, nodes[i]) IN
             /\ r.result.kind = "Err" /\ r.result.err.type = "InvalidNodeType"
             /\ r.self = Self

\* ------------------------------------------------------------------ C33
\* Lower and upper bound of the tags below a stored node.
Lo(n) == IF n.type = "Internal" THEN n.timestamp_range[1] ELSE n.timestamp
Hi(n) == IF n.type = "Internal" THEN n.timestamp_range[2] ELSE n.timestamp
\* The stored node at position i (from 0) of the layer above the layer of
\* count nodes stored from position start is derived from its two children,
\* an unpaired last child standing for both.
DerivedFrom(start, count, i) ==
    LET n == At(nodes, start + count + i)
        l == At(nodes, start + 2 * i)
        r == IF 2 * i + 1 < count THEN At(nodes, start + 2 * i + 1) ELSE l
    IN /\ n.type = "Internal"
       /\ n.left_hash = node_hash(l) /\ n.right_hash = node_hash(r)
       /\ n.hash = hash_pair(n.left_hash, n.right_hash)
       /\ n.timestamp_range = <<Min(Lo(l), Lo(r)), Max(Hi(l), Hi(r))>>
RECURSIVE LayersDerived(_, _)
LayersDerived(start, count) ==
    IF count <= 1 THEN Len(nodes) = start + count
    ELSE /\ Len(nodes) >= start + count + (count + 1) \div 2
         /\ \A i \in 0..((count + 1) \div 2 - 1) : DerivedFrom(start, count, i)
         /\ LayersDerived(start + count, (count + 1) \div 2)
LeafTags == {nodes[i].timestamp : i \in 1..leaf_count}

\* C33: after any inserts and rollbacks every stored internal node has
\* hash = hash_pair(left_hash, right_hash) over its children's hashes and
\* timestamp_range = (min of the children's lower bounds, max of their upper
\* bounds); with two or more leaves the top node's range is (smallest leaf
\* tag, largest leaf tag), in whatever order the tags were inserted.
C33_InternalNodesDerived ==
    /\ LayersDerived(0, leaf_count)
    /\ leaf_count >= 2 =>
          /\ \A t \in LeafTags : Lo(nodes[Len(nodes)]) <= t /\ t <= Hi(nodes[Len(nodes)])
          /\ Lo(nodes[Len(nodes)]) \in LeafTags
          /\ Hi(nodes[Len(nodes)]) \in LeafTags

\* Three leaves with tags 3, 1, 2 left by a rollback: the top node spans
\* (1, 3) although the first leaf carries the largest tag.
C33_Witness ==
    /\ lastOp = [op |-> "rollback_to_timestamp", arg |-> 3, ok |-> TRUE]
    /\ leaf_count = 3 /\ Len(nodes) = 6
    /\ nodes[1].timestamp = 3 /\ nodes[2].timestamp = 1 /\ nodes[3].timestamp = 2
    /\ nodes[4].timestamp_range = <<1, 3>>
    /\ nodes[5].timestamp_range = <<2, 2>>
    /\ nodes[6].timestamp_range = <<1, 3>>

\* ------------------------------------------------------------------ C34
\* The path the claim describes for index idx of the stored layer of count
\* nodes that starts at position start: one step per layer below the top.
RECURSIVE ClaimedPath(_, _, _)
ClaimedPath(start, count, idx) ==
    IF count <= 1 THEN <<>>
    ELSE LET own == node_hash(At(nodes, start + idx))
             sibling == IF idx % 2 = 0
                        THEN IF idx + 1 < count
                             THEN node_hash(At(nodes, start + idx + 1))
                             ELSE own
                        ELSE node_hash(At(nodes, start + idx - 1))
             step == IF idx % 2 = 0 THEN Right(sibling) ELSE Left(sibling)
         IN <<step>> \o ClaimedPath(start + count, (count + 1) \div 2, idx \div 2)
\* The number of layers below the top of a tree of count leaves.
RECURSIVE LayersBelowTop(_)
LayersBelowTop(count) ==
    IF count <= 1 THEN 0 ELSE 1 + LayersBelowTop((count + 1) \div 2)

\* C34: generate_proof(k) emits one step per layer below the top, Right with
\* the right neighbour for an even index, Left with the left neighbour for
\* an odd one, the node's own hash for the unpaired last node of an odd
\* layer, halving the index per layer; the proof carries leaf_index = k and
\* the leaf's tag, no Delta step, no delta chain and no programmable
\* results; with one leaf the path is empty.
C34_ProofPathShape ==
    \A k \in 0..(leaf_count - 1) :
        LET g == generate_proof(Self, k) IN
        /\ g.kind = "Ok"
        /\ g.val.leaf_index = k
        /\ g.val.timestamp = At(nodes, k).timestamp
        /\ g.val.delta_chain = None
        /\ g.val.programmable_results = <<>>
        /\ g.val.path = ClaimedPath(0, leaf_count, k)
        /\ Len(g.val.path) = LayersBelowTop(leaf_count)
        /\ \A i \in 1..Len(g.val.path) : g.val.path[i].side \in {"Left", "Right"}
        /\ leaf_count = 1 => g.val.path = <<>>

\* Three leaves: the proof of the unpaired third leaf starts with its own
\* hash on the right and ends with the first parent on the left.
C34_Witness ==
    /\ leaf_count = 3 /\ Len(nodes) = 6
    /\ node_hash(nodes[1]) # node_hash(nodes[3])
    /\ generate_proof(Self, 2).val.path
          = <<Right(node_hash(nodes[3])), Left(node_hash(nodes[4]))>>
    /\ generate_proof(Self, 1).val.path
          = <<Left(node_hash(nodes[1])), Right(node_hash(nodes[5]))>>

\* ------------------------------------------------------------------ C35
\* Lists of programmable results with and without a false entry.
ResultLists ==
    { <<>>, <<TRUE>>, <<FALSE>>, <<TRUE, TRUE>>, <<TRUE, FALSE>>,
      <<FALSE, TRUE>> }
HasFalse(results) == \E j \in 1..Len(results) : ~results[j]

\* C35: proof::verify_proof returns Err(ValidationFailed) whenever the
\* programmable results contain a false entry and no Delta step failed
\* before, whether or not the folded path equals the root; when no entry is
\* false the results do not influence the outcome.
C35_ProgrammableResultsGate ==
    \A k \in 0..(leaf_count - 1) :
        \A p \in ProbePaths(k), c \in ProbeChains(k),
           rt \in {root(Self)[1], JunkHash} :
            LET bare == [leaf_index |-> k, path |-> p, delta_chain |-> c,
                         programmable_results |-> <<>>,
                         timestamp |-> At(nodes, k).timestamp]
                plain == proof_verify_proof(bare, LeafHashAt(k), rt)
            IN \A results \in ResultLists :
                 LET r == proof_verify_proof(
                              [bare EXCEPT !.programmable_results = results],
                              LeafHashAt(k), rt)
                 IN IF HasFalse(results) /\ plain.kind = "Ok"
                    THEN r = Err([type |-> "ValidationFailed"])
                    ELSE r = plain

\* On a two-leaf tree the generated proof of leaf 1 is accepted, is refused
\* with ValidationFailed once a false result is attached, against the root
\* and against another hash, and a failing Delta step is reported first.
C35_Witness ==
    /\ leaf_count = 2
    /\ LET proof == generate_proof(Self, 1).val
           h == LeafHashAt(1)
           failed == [proof EXCEPT !.programmable_results = <<TRUE, FALSE>>]
       IN /\ proof_verify_proof(proof, h, root(Self)[1]) = Ok(TRUE)
          /\ proof_verify_proof(failed, h, root(Self)[1])
                = Err([type |-> "ValidationFailed"])
          /\ proof_verify_proof(failed, h, JunkHash)
                = Err([type |-> "ValidationFailed"])
          /\ proof_verify_proof(
                 [failed EXCEPT !.path = <<Delta(JunkHash, h)>>], h, JunkHash)
                = ProofFailed

\* ------------------------------------------------------------------ C36
Distance(a, b) == IF a >= b THEN a - b ELSE b - a
\* The indexed tags nearest to t, the smaller one first on a tie.
Nearest(si, t) ==
    {tag \in DOMAIN si.index :
        \A u \in DOMAIN si.index :
            \/ Distance(tag, t) < Distance(u, t)
            \/ Distance(tag, t) = Distance(u, t) /\ tag <= u}

\* C36: find_nearest(t) is None iff the index is empty; otherwise it is the
\* leaf index stored for the indexed tag nearest to t, the predecessor when
\* predecessor and successor are equally distant, and the entry of t itself
\* when t is indexed.
C36_FindNearestExact ==
    \A si \in {sparse_index, delta_chains} :
        \A t \in QueryTags :
            /\ find_nearest(si, t) = None <=> DOMAIN si.index = {}
            /\ DOMAIN si.index # {} =>
                  \E tag \in Nearest(si, t) :
                      /\ Nearest(si, t) = {tag}
                      /\ find_nearest(si, t) = Some(si.index[tag])
            /\ t \in DOMAIN si.index
                  => find_nearest(si, t) = Some(si.index[t])

\* Tags 1 and 3 are indexed with different leaves and 2 is not: tag 2 has
\* two neighbours at distance 1 and gets the leaf of tag 1.
C36_Witness ==
    /\ DOMAIN sparse_index.index = {1, 3}
    /\ sparse_index.index[1] # sparse_index.index[3]
    /\ find_nearest(sparse_index, 2) = Some(sparse_index.index[1])
    /\ find_nearest(sparse_index, 4) = Some(sparse_index.index[3])
    /\ find_nearest(sparse_index, 0) = Some(sparse_index.index[1])
    /\ find_nearest(SparseIndex_new(1), 2) = None

\* ------------------------------------------------------------------ C37
\* Byte strings compared: the root, the root with its first or its last
\* position changed, the root cut short, a leaf hash, another hash, nothing.
Operands ==
    IF leaf_count = 0 THEN {<<>>, JunkHash}
    ELSE LET r == root(Self)[1] IN
         {r, Flip(r, 1), Flip(r, Len(r)), Flip(Flip(r, 2), Len(r)),
          SubSeq(r, 1, Len(r) - 1), LeafHashAt(0), JunkHash, <<>>}

\* C37: constant_time_eq returns false without entering the loop only when
\* the lengths differ; on equal lengths the loop runs once per byte position,
\* wherever the inputs differ, and the result is true iff all bytes are
\* equal.
C37_ComparisonVisitsEveryByte ==
    \A a \in Operands, b \in Operands :
        LET c == constant_time_eq_counted(a, b) IN
        /\ c.result = constant_time_eq(a, b)
        /\ Len(a) # Len(b) => c = [result |-> FALSE, iterations |-> 0]
        /\ Len(a) = Len(b) =>
              /\ c.iterations = Len(a)
              /\ c.result = (a = b)

\* A three-leaf root against itself, against a copy differing in the first
\* position and against a shorter string.
C37_Witness ==
    /\ leaf_count = 3
    /\ LET r == root(Self)[1] IN
       /\ Len(r) > 8
       /\ constant_time_eq_counted(r, r) = [result |-> TRUE, iterations |-> Len(r)]
       /\ constant_time_eq_counted(r, Flip(r, 1))
             = [result |-> FALSE, iterations |-> Len(r)]
       /\ constant_time_eq_counted(r, SubSeq(r, 1, Len(r) - 1))
             = [result |-> FALSE, iterations |-> 0]

\* ------------------------------------------------------------------ C38
\* Chains handed to verify_delta: each record of the log on its own, and
\* what get_delta_chain returns for each tag.
DeltaProofs ==
    {<<stored_deltas[i]>> : i \in 1..Len(stored_deltas)}
      \cup {get_delta_chain(Self, t) : t \in QueryTags}
\* Roots a caller may pass as old_root: the recorded ones, observed ones and
\* a hash unrelated to the tree.
OldRoots ==
    {stored_deltas[i].base_hash : i \in 1..Len(stored_deltas)}
      \cup {hist[i] : i \in 1..Len(hist)} \cup {JunkHash}

\* C38: verify_delta(old_root, new_root, chain) with a non-empty chain is
\* Ok(true) only if the old_root recorded in the chain's first delta is the
\* old_root passed in.
C38_VerifyDeltaBindsOldRoot ==
    leaf_count >= 1 =>
        \A chain \in DeltaProofs, old_root \in OldRoots :
            (chain # <<>> /\ verify_delta(old_root, root(Self)[1], chain) = Ok(TRUE))
            => chain[1].base_hash = old_root

\* ------------------------------------------------------------------ C39
\* The tree as it was when it held the first m of the current leaves; in a
\* run of inserts alone that is the state after the m-th successful insert.
Earlier(m) == FreshTree(config, SubSeq(nodes, 1, m))
\* The proofs generated at an earlier moment, with the root seen then.
StaleProofsInRange ==
    {[proof |-> generate_proof(Earlier(x[1]), x[2]).val,
      root_then |-> root(Earlier(x[1]))] :
        x \in {y \in (1..(leaf_count - 1)) \X (0..(leaf_count - 2)) : y[2] < y[1]}}

\* C39 as stated: a proof generated before one or more later successful
\* inserts is rejected by verify_proof with Ok(false).
C39_StaleProofRejected ==
    \A s \in StaleProofsInRange : verify_proof(Self, s.proof) = Ok(FALSE)

\* C39 amended: such a proof never yields an error; it is rejected with
\* Ok(false) when the later inserts changed the root and accepted with
\* Ok(true) when they left it unchanged.
C39_StaleProofFollowsRoot ==
    \A s \in StaleProofsInRange :
        verify_proof(Self, s.proof) = Ok(s.root_then = root(Self))

\* Four leaves, the fourth repeating the third: the proofs of the
\* three-leaf tree are still accepted, those of the two-leaf tree are not.
C39_Witness ==
    /\ leaf_count = 4
    /\ root(Earlier(3)) = root(Self)
    /\ root(Earlier(2)) # root(Self)
    /\ verify_proof(Self, generate_proof(Earlier(3), 0).val) = Ok(TRUE)
    /\ verify_proof(Self, generate_proof(Earlier(2), 0).val) = Ok(FALSE)
    /\ Len(generate_proof(Earlier(2), 0).val.path) = 1

\* ------------------------------------------------------------------ C40
\* The indexed tags of si in start..end, in ascending order.
RECURSIVE TagsAscending(_, _, _)
TagsAscending(si, start, end) ==
    IF start > end THEN <<>>
    ELSE (IF start \in DOMAIN si.index THEN <<start>> ELSE <<>>)
         \o TagsAscending(si, start + 1, end)

\* C40: SparseIndex::find_range(start, end) returns the leaf indices of all
\* indexed tags in [start, end] in ascending tag order for every pair of
\* arguments, the empty sequence when start > end, and never aborts.
C40_SparseFindRangeTotal ==
    \A si \in {sparse_index, delta_chains} :
        \A start \in QueryTags, end \in QueryTags :
            LET r == SparseIndex_find_range(si, start, end)
                tags == TagsAscending(si, start, end)
            IN /\ r.kind = "Ok"
               /\ r.val = [i \in 1..Len(tags) |-> si.index[tags[i]]]
====
